---------------------------- MODULE Spec2Model ----------------------------
(***************************************************************************)
(* AWB detail parser (app/services/awb_parser.py), the detailed report     *)
(* builders of ExportService (app/services/export_service.py) and the      *)
(* document-details endpoint (app/api/documents.py).                       *)
(*                                                                         *)
(* Representation                                                          *)
(*   - a text is a sequence of one-character strings; the empty sequence   *)
(*     stands for both None and "" (the code only ever tests truthiness); *)
(*   - an optional value is a sequence of length 0 (None) or 1;            *)
(*   - a float is a decimal fixed-point integer counting 1/Scale units;    *)
(*   - an XML element is [tag, text, kids], kids in document order;        *)
(*   - a byte blob is [kind, root]: what bytes.decode + ET.fromstring make *)
(*     of it (kind) and, when it is a well-formed tree, its root element.  *)
(***************************************************************************)
EXTENDS Integers, Sequences, FiniteSets, TLC

VARIABLES
    xml_data,       \* AWBParser.parse: the argument of the current call
    parse_result,   \* AWBParser.parse: outcome of the call (optional)
    documents,      \* the report builders' input list
    pc,             \* position inside the running handler
    idx,            \* loop index of the running loop (1-based)
    parsed_docs,    \* export_detailed_awb_report_excel: parsed_docs
    totals,         \* the six running totals
    totals_row,     \* sheet "Recapitulatif", the TOTAUX row (optional)
    summary_rows,   \* sheet "Recapitulatif", data rows
    item_rows,      \* sheet "Lignes de tarification"
    charge_rows,    \* sheet "Autres Frais"
    routing_rows,   \* sheet "Routing"
    stats,          \* sheet "Statistiques" (optional)
    pdf_totals,     \* export_detailed_awb_report_pdf: totals of the KPI table
    pdf_rows,       \* export_detailed_awb_report_pdf: data[1:]
    parse_calls,    \* calls of AWBParser.parse made so far, per document
    document_id,    \* get_document_details: the path parameter
    response,       \* get_document_details: the answer (optional)
    as_dict,        \* AWBParser.to_dict: the dictionary returned (optional)
    pdf_footer,     \* export_detailed_awb_report_pdf: the footer (optional)
    heap,           \* the mutable objects built by AWBParser.parse, by address
    calls,          \* the calls of AWBParser.parse made by concurrent callers
    finished,       \* the positions in calls, in the order the calls returned
    mutations,      \* number of changes callers made to returned records
    users,          \* the platform_users table, in insertion order
    audit_log,      \* the audit_logs table, in insertion order
    tokens,         \* the access tokens issued so far
    now,            \* datetime.utcnow(), in ticks
    last            \* the last request made and its answer

vars == <<xml_data, parse_result, documents, pc, idx, parsed_docs, totals,
          totals_row, summary_rows, item_rows, charge_rows, routing_rows, stats,
          pdf_totals, pdf_rows, parse_calls, document_id, response, as_dict,
          pdf_footer, heap, calls, finished, mutations, users, audit_log,
          tokens, now, last>>

\* the state of the user service and of the role-checked endpoints
auth_vars == <<users, audit_log, tokens, now, last>>

\* the state of concurrent callers of parse
heap_vars == <<heap, calls, finished, mutations>>

\* the state of the operations other than parse, to_dict and the callers
\* of parse
rest_vars == <<heap_vars, auth_vars>>

\* the state of the operations other than parse, the two report builders
\* and the details endpoint
extra_vars == <<as_dict, pdf_footer, rest_vars>>

---------------------------------------------------------------------------
(* Bounds of the model.                                                    *)

\* longest document list given to the Excel builder
MaxDocs == 3
\* longest document list given to the PDF builder
MaxPdfDocs == 52
\* longest documents table the three callers of the parser are compared on
MaxCallerDocs == 2

\* resolution of the decimal fixed-point numbers standing for floats
Scale == 10 ^ 3
FracDigits == <<"0", "0", "0">>

---------------------------------------------------------------------------
(* Texts.                                                                  *)

None == <<>>
Some(x) == <<x>>
IsNone(o) == o = <<>>
Get(o) == o[1]

Digits == {"0", "1", "2", "3", "4", "5", "6", "7", "8", "9"}
WhiteSpace == {" ", "\t", "\n", "\r"}

DigitVal(c) ==
    CASE c = "0" -> 0 [] c = "1" -> 1 [] c = "2" -> 2 [] c = "3" -> 3
      [] c = "4" -> 4 [] c = "5" -> 5 [] c = "6" -> 6 [] c = "7" -> 7
      [] c = "8" -> 8 [] c = "9" -> 9

Take(s, n) == SubSeq(s, 1, IF Len(s) < n THEN Len(s) ELSE n)

RECURSIVE LStrip(_)
LStrip(s) == IF s # <<>> /\ s[1] \in WhiteSpace THEN LStrip(Tail(s)) ELSE s

RECURSIVE RStrip(_)
RStrip(s) ==
    IF s # <<>> /\ s[Len(s)] \in WhiteSpace
    THEN RStrip(SubSeq(s, 1, Len(s) - 1)) ELSE s

\* str.strip()
Strip(s) == RStrip(LStrip(s))

RECURSIVE DigitsVal(_)
DigitsVal(s) ==
    IF s = <<>> THEN 0
    ELSE 10 * DigitsVal(SubSeq(s, 1, Len(s) - 1)) + DigitVal(s[Len(s)])

Unsigned(s) == IF s # <<>> /\ s[1] \in {"+", "-"} THEN Tail(s) ELSE s
Negative(s) == s # <<>> /\ s[1] = "-"

\* the texts int() accepts: an optional sign and one or more digits
IsIntText(s) ==
    LET u == Unsigned(s)
    IN  u # <<>> /\ \A i \in 1..Len(u) : u[i] \in Digits

\* the texts float() accepts: an optional sign, digits with at most one
\* decimal point, at least one digit (exponents, underscores, "inf" and
\* "nan" lie outside the alphabet of the model's texts)
IsFloatText(s) ==
    LET u == Unsigned(s)
        dots == {i \in 1..Len(u) : u[i] = "."}
    IN  /\ Cardinality(dots) <= 1
        /\ \A i \in 1..Len(u) : u[i] \in Digits \cup {"."}
        /\ Len(u) > Cardinality(dots)

\* int(text) for a text int() accepts
IntOf(s) ==
    IF Negative(s) THEN 0 - DigitsVal(Unsigned(s)) ELSE DigitsVal(Unsigned(s))

\* float(text) for a text float() accepts, in 1/Scale units; decimals beyond
\* the fixed-point resolution are dropped
FloatOf(s) ==
    LET u == Unsigned(s)
        dots == {i \in 1..Len(u) : u[i] = "."}
        dot == IF dots = {} THEN Len(u) + 1 ELSE CHOOSE i \in dots : TRUE
        whole == SubSeq(u, 1, dot - 1)
        frac == Take(SubSeq(u, dot + 1, Len(u)) \o FracDigits, Len(FracDigits))
        mag == DigitsVal(whole) * Scale + DigitsVal(frac)
    IN  IF Negative(s) THEN 0 - mag ELSE mag

RECURSIVE Join(_, _)
\* sep.join(parts)
Join(parts, sep) ==
    IF parts = <<>> THEN <<>>
    ELSE IF Len(parts) = 1 THEN parts[1]
    ELSE parts[1] \o sep \o Join(Tail(parts), sep)

RECURSIVE Flatten(_)
\* concatenation of a sequence of sequences
Flatten(ss) == IF ss = <<>> THEN <<>> ELSE ss[1] \o Flatten(Tail(ss))

RECURSIVE SumSeq(_)
\* sum(...) over a sequence of numbers
SumSeq(ns) == IF ns = <<>> THEN 0 ELSE ns[1] + SumSeq(Tail(ns))

---------------------------------------------------------------------------
(* xml.etree.ElementTree, as far as the parser uses it.                    *)

Leaf(tag, text) == [tag |-> tag, text |-> text, kids |-> <<>>]
Node(tag, kids) == [tag |-> tag, text |-> <<>>, kids |-> kids]

\* Element.findall(tag): the direct children with that tag, document order
FindAll(elem, tag) == SelectSeq(elem.kids, LAMBDA k : k.tag = tag)

\* Element.find(tag): the first direct child with that tag, or None
Find(elem, tag) ==
    LET m == FindAll(elem, tag) IN IF m = <<>> THEN None ELSE Some(m[1])

---------------------------------------------------------------------------
(* AWBParser.                                                              *)

\* faulty variant of _get_text: the text is returned without .strip()
_get_text_NoStrip(root, tag) ==
    LET elem == Find(root, tag)
    IN  IF ~IsNone(elem) /\ Get(elem).text # <<>>
        THEN Get(elem).text ELSE <<>>

\* AWBParser._get_text
_get_text(root, tag) ==
    LET elem == Find(root, tag)
    IN  IF ~IsNone(elem) /\ Get(elem).text # <<>>
        THEN Strip(Get(elem).text) ELSE <<>>

\* AWBParser._get_int
_get_int(root, tag) ==
    LET text == _get_text(root, tag)
    IN  IF text = <<>> THEN 0
        ELSE IF IsIntText(text) THEN IntOf(text) ELSE 0

\* faulty variant of TryFloat: a locale-aware parse that also takes "," as
\* the decimal separator
TryFloat_CommaDecimal(text) ==
    LET t == [i \in 1..Len(Strip(text)) |->
                IF Strip(text)[i] = "," THEN "." ELSE Strip(text)[i]]
    IN  IF IsFloatText(t) THEN FloatOf(t) ELSE 0

\* float(text) inside try/except ValueError, 0.0 on failure; float() strips
\* surrounding whitespace itself
TryFloat(text) ==
    IF IsFloatText(Strip(text)) THEN FloatOf(Strip(text)) ELSE 0

\* AWBParser._get_float
_get_float(root, tag) ==
    LET text == _get_text(root, tag)
    IN  IF text = <<>> THEN 0 ELSE TryFloat(text)

\* faulty variant of OrK: the default is forgotten
OrK_NoDefault(text) == text

\* "... or 'K'"
OrK(text) == IF text # <<>> THEN text ELSE <<"K">>

\* faulty variant of StringTexts: the "if s.text" filter is forgotten
StringTexts_KeepEmpty(container) ==
    LET ss == FindAll(container, "string")
    IN  [i \in 1..Len(ss) |-> ss[i].text]

\* [s.text for s in container.findall('string') if s.text]
StringTexts(container) ==
    LET ss == SelectSeq(FindAll(container, "string"), LAMBDA s : s.text # <<>>)
    IN  [i \in 1..Len(ss) |-> ss[i].text]

\* RouteInfo() and the three conditional assignments of parse
ParseRouteList(root, tag) ==
    LET c == Find(root, tag)
    IN  IF ~IsNone(c) THEN StringTexts(Get(c)) ELSE <<>>

ParseRoute(root) ==
    [to |-> ParseRouteList(root, "route-to"),
     by |-> ParseRouteList(root, "route-by"),
     flights |-> ParseRouteList(root, "requested-flight")]

ParseItem(item_elem) ==
    [pieces |-> _get_int(item_elem, "pieces"),
     gross_weight |-> _get_float(item_elem, "gross-weight"),
     chargeable_weight |-> _get_float(item_elem, "chargeable-weight"),
     rate_charge |-> _get_float(item_elem, "rate-charge"),
     total |-> _get_float(item_elem, "total"),
     nature |-> _get_text(item_elem, "nature"),
     scale |-> OrK(_get_text(item_elem, "scale")),
     rate_class |-> _get_text(item_elem, "rate-class"),
     item_number |-> _get_text(item_elem, "item-number"),
     dimensions |-> _get_text(item_elem, "dimensions")]

\* faulty variant of _parse_items: find in place of findall
_parse_items_FirstOnly(root) ==
    LET items_elem == Find(root, "items")
    IN  IF ~IsNone(items_elem) /\ ~IsNone(Find(Get(items_elem), "awb-item"))
        THEN <<ParseItem(Get(Find(Get(items_elem), "awb-item")))>>
        ELSE <<>>

\* AWBParser._parse_items
_parse_items(root) ==
    LET items_elem == Find(root, "items")
    IN  IF ~IsNone(items_elem)
        THEN LET elems == FindAll(Get(items_elem), "awb-item")
             IN  [i \in 1..Len(elems) |-> ParseItem(elems[i])]
        ELSE <<>>

ParseOtherCharge(charge_elem) ==
    [code |-> _get_text(charge_elem, "code"),
     amount |-> _get_float(charge_elem, "amount"),
     due |-> _get_text(charge_elem, "due"),
     three_letter_code |-> _get_text(charge_elem, "three-letter-code")]

\* faulty variant of _parse_other_charges: charges.insert(0, ...) in place
\* of charges.append(...)
_parse_other_charges_Reversed(root) ==
    LET charges_elem == Find(root, "other-charges")
    IN  IF ~IsNone(charges_elem)
        THEN LET elems == FindAll(Get(charges_elem), "awb-other-charges")
             IN  [i \in 1..Len(elems) |->
                    ParseOtherCharge(elems[Len(elems) + 1 - i])]
        ELSE <<>>

\* AWBParser._parse_other_charges
_parse_other_charges(root) ==
    LET charges_elem == Find(root, "other-charges")
    IN  IF ~IsNone(charges_elem)
        THEN LET elems == FindAll(Get(charges_elem), "awb-other-charges")
             IN  [i \in 1..Len(elems) |-> ParseOtherCharge(elems[i])]
        ELSE <<>>

\* faulty variant of get_pair: children without text are dropped before the
\* two positions are read, as the routing lists do
get_pair_SkipEmpty(root, tag) ==
    LET elem == Find(root, tag)
    IN  IF ~IsNone(elem)
        THEN LET strings == SelectSeq(FindAll(Get(elem), "string"),
                                      LAMBDA s : s.text # <<>>)
             IN  [prepaid |-> IF Len(strings) >= 1
                              THEN TryFloat(strings[1].text) ELSE 0,
                  collect |-> IF Len(strings) >= 2
                              THEN TryFloat(strings[2].text) ELSE 0]
        ELSE [prepaid |-> 0, collect |-> 0]

\* faulty variant of get_pair: the collect value read from strings[-1]
get_pair_LastIsCollect(root, tag) ==
    LET elem == Find(root, tag)
    IN  IF ~IsNone(elem)
        THEN LET strings == FindAll(Get(elem), "string")
                 n == Len(strings)
             IN  [prepaid |-> IF n >= 1 /\ strings[1].text # <<>>
                              THEN TryFloat(strings[1].text) ELSE 0,
                  collect |-> IF n >= 1 /\ strings[n].text # <<>>
                              THEN TryFloat(strings[n].text) ELSE 0]
        ELSE [prepaid |-> 0, collect |-> 0]

\* get_pair inside AWBParser._parse_charges_summary
get_pair(root, tag) ==
    LET elem == Find(root, tag)
    IN  IF ~IsNone(elem)
        THEN LET strings == FindAll(Get(elem), "string")
             IN  [prepaid |-> IF Len(strings) >= 1 /\ strings[1].text # <<>>
                              THEN TryFloat(strings[1].text) ELSE 0,
                  collect |-> IF Len(strings) >= 2 /\ strings[2].text # <<>>
                              THEN TryFloat(strings[2].text) ELSE 0]
        ELSE [prepaid |-> 0, collect |-> 0]

\* AWBParser._parse_charges_summary
_parse_charges_summary(root) ==
    [weight_charge_prepaid |-> get_pair(root, "weight-charge").prepaid,
     weight_charge_collect |-> get_pair(root, "weight-charge").collect,
     valuation_charge_prepaid |-> get_pair(root, "valuation-charge").prepaid,
     valuation_charge_collect |-> get_pair(root, "valuation-charge").collect,
     tax_prepaid |-> get_pair(root, "tax").prepaid,
     tax_collect |-> get_pair(root, "tax").collect,
     other_due_agent_prepaid |-> get_pair(root, "other-due-agent").prepaid,
     other_due_agent_collect |-> get_pair(root, "other-due-agent").collect,
     other_due_carrier_prepaid |-> get_pair(root, "other-due-carrier").prepaid,
     other_due_carrier_collect |-> get_pair(root, "other-due-carrier").collect,
     total_prepaid |-> get_pair(root, "weight-total").prepaid,
     total_collect |-> get_pair(root, "weight-total").collect]

\* the body of the try block of AWBParser.parse after ET.fromstring
BuildDetails(root) ==
    [awb_type |-> _get_text(root, "awb-type"),
     airline_prefix |-> _get_text(root, "airline-prefix"),
     serial_number |-> _get_text(root, "awb-serial-number"),
     hawb |-> _get_text(root, "hawb"),
     weight_payment_type |-> _get_text(root, "weight-payment-type"),
     other_charges_payment_type |-> _get_text(root, "other-charges-payment-type"),
     calculations |-> _get_text(root, "calculations"),
     shipper_details |-> _get_text(root, "shipper-details"),
     shipper_account |-> _get_text(root, "shipper-account-number"),
     consignee_details |-> _get_text(root, "consignee-details"),
     consignee_account |-> _get_text(root, "consignee-account-number"),
     agent_details |-> _get_text(root, "agent-details"),
     agent_iata_code |-> _get_text(root, "agent-iata-cargo-numeric-code"),
     issued_by_details |-> _get_text(root, "issued-by-details"),
     airport_departure |-> _get_text(root, "airport-departure"),
     airport_departure_code |-> _get_text(root, "airport-city-code-departure"),
     airport_destination |-> _get_text(root, "airport-destination"),
     route |-> ParseRoute(root),
     items |-> _parse_items(root),
     total_pieces |-> _get_int(root, "item-pieces"),
     total_weight |-> _get_float(root, "item-weight"),
     weight_scale |-> OrK(_get_text(root, "item-weight-scale")),
     items_total |-> _get_float(root, "item-total"),
     other_charges |-> _parse_other_charges(root),
     charges_summary |-> _parse_charges_summary(root),
     currency |-> _get_text(root, "currency"),
     insurance |-> _get_text(root, "insurance"),
     value_carrier |-> _get_text(root, "value-carrier"),
     value_customs |-> _get_text(root, "value-customs"),
     reference_number |-> _get_text(root, "reference-number"),
     handling_information |-> _get_text(root, "handling-information"),
     accounting_information |-> _get_text(root, "accounting-information"),
     sci |-> _get_text(root, "sci"),
     shipper_signature |-> _get_text(root, "shipper-signature"),
     carrier_signature |-> _get_text(root, "carrier-signature"),
     carrier_date |-> _get_text(root, "carrier-date"),
     carrier_place |-> _get_text(root, "carrier-place"),
     notes |-> _get_text(root, "notes")]

\* AWBDetails() with no argument, after __post_init__
DefaultDetails == BuildDetails(Node("awb", <<>>))

\* the kinds of value a caller can hand to parse as document_data
BlobKinds == {"None", "Empty", "BadUtf8", "Truncated", "Xml"}

NoBlob == [kind |-> "None", root |-> Node("", <<>>)]
EmptyBlob == [kind |-> "Empty", root |-> Node("", <<>>)]
BadUtf8Blob == [kind |-> "BadUtf8", root |-> Node("", <<>>)]
TruncatedBlob == [kind |-> "Truncated", root |-> Node("", <<>>)]
XmlBlob(root) == [kind |-> "Xml", root |-> root]

\* bool(xml_data): None and b"" are falsy
Truthy(blob) == blob.kind \notin {"None", "Empty"}

\* xml_data.decode('utf-8') followed by ET.fromstring: the exception raised
\* ("" when none is)
DecodeError(blob) ==
    CASE blob.kind = "None" -> "AttributeError"
      [] blob.kind = "BadUtf8" -> "UnicodeDecodeError"
      [] blob.kind \in {"Empty", "Truncated"} -> "ParseError"
      [] OTHER -> ""

\* faulty variant of Caught: except ET.ParseError
Caught_ParseErrorOnly(exc) == exc = "ParseError"

\* except Exception: every exception the try block can raise derives from it
Caught(exc) == exc \in {"AttributeError", "UnicodeDecodeError", "ParseError"}

Return(value) == [raised |-> "", value |-> value, logged |-> FALSE]
ReturnLogged(value) == [raised |-> "", value |-> value, logged |-> TRUE]
Raise(exc) == [raised |-> exc, value |-> None, logged |-> FALSE]

\* faulty variant of parse: the handler logs and re-raises
parse_Reraise(blob) ==
    IF ~Truthy(blob) THEN Return(None)
    ELSE IF DecodeError(blob) = "" THEN Return(Some(BuildDetails(blob.root)))
    ELSE Raise(DecodeError(blob))

\* faulty variant of parse: the handler returns an empty AWBDetails()
parse_EmptyOnError(blob) ==
    IF ~Truthy(blob) THEN Return(None)
    ELSE IF DecodeError(blob) = "" THEN Return(Some(BuildDetails(blob.root)))
    ELSE IF Caught(DecodeError(blob)) THEN ReturnLogged(Some(DefaultDetails))
    ELSE Raise(DecodeError(blob))

\* faulty variant of parse: an empty record for absent data
parse_AbsentAsDefault(blob) ==
    IF ~Truthy(blob) THEN Return(Some(DefaultDetails))
    ELSE IF DecodeError(blob) = "" THEN Return(Some(BuildDetails(blob.root)))
    ELSE IF Caught(DecodeError(blob)) THEN ReturnLogged(None)
    ELSE Raise(DecodeError(blob))

\* AWBParser.parse: what the call does, [raised, value, logged]
parse(blob) ==
    IF ~Truthy(blob) THEN Return(None)
    ELSE IF DecodeError(blob) = "" THEN Return(Some(BuildDetails(blob.root)))
    ELSE IF Caught(DecodeError(blob)) THEN ReturnLogged(None)
    ELSE Raise(DecodeError(blob))

\* faulty variant of ItemDicts: the comprehension runs over items[1:]
ItemDicts_SkipFirst(items) ==
    [k \in 1..(Len(items) - 1) |->
       [pieces |-> items[k + 1].pieces,
        gross_weight |-> items[k + 1].gross_weight,
        chargeable_weight |-> items[k + 1].chargeable_weight,
        rate_charge |-> items[k + 1].rate_charge,
        total |-> items[k + 1].total,
        nature |-> items[k + 1].nature,
        scale |-> items[k + 1].scale,
        rate_class |-> items[k + 1].rate_class,
        item_number |-> items[k + 1].item_number,
        dimensions |-> items[k + 1].dimensions]]

\* [asdict(item) for item in details.items]: a dictionary keyed by the
\* field names of AWBItem for each item
ItemDicts(items) ==
    [k \in 1..Len(items) |->
       [pieces |-> items[k].pieces,
        gross_weight |-> items[k].gross_weight,
        chargeable_weight |-> items[k].chargeable_weight,
        rate_charge |-> items[k].rate_charge,
        total |-> items[k].total,
        nature |-> items[k].nature,
        scale |-> items[k].scale,
        rate_class |-> items[k].rate_class,
        item_number |-> items[k].item_number,
        dimensions |-> items[k].dimensions]]

\* [asdict(charge) for charge in details.other_charges]
ChargeDicts(charges) ==
    [k \in 1..Len(charges) |->
       [code |-> charges[k].code,
        amount |-> charges[k].amount,
        due |-> charges[k].due,
        three_letter_code |-> charges[k].three_letter_code]]

\* asdict(details.charges_summary)
SummaryDict(cs) ==
    [weight_charge_prepaid |-> cs.weight_charge_prepaid,
     weight_charge_collect |-> cs.weight_charge_collect,
     valuation_charge_prepaid |-> cs.valuation_charge_prepaid,
     valuation_charge_collect |-> cs.valuation_charge_collect,
     tax_prepaid |-> cs.tax_prepaid,
     tax_collect |-> cs.tax_collect,
     other_due_agent_prepaid |-> cs.other_due_agent_prepaid,
     other_due_agent_collect |-> cs.other_due_agent_collect,
     other_due_carrier_prepaid |-> cs.other_due_carrier_prepaid,
     other_due_carrier_collect |-> cs.other_due_carrier_collect,
     total_prepaid |-> cs.total_prepaid,
     total_collect |-> cs.total_collect]

\* AWBParser.to_dict
to_dict(details) ==
    IF IsNone(details) THEN <<>>
    ELSE LET d == Get(details)
         IN  [awb_type |-> d.awb_type,
              airline_prefix |-> d.airline_prefix,
              serial_number |-> d.serial_number,
              hawb |-> d.hawb,
              weight_payment_type |-> d.weight_payment_type,
              other_charges_payment_type |-> d.other_charges_payment_type,
              calculations |-> d.calculations,
              shipper |-> [details |-> d.shipper_details,
                           account |-> d.shipper_account],
              consignee |-> [details |-> d.consignee_details,
                             account |-> d.consignee_account],
              agent |-> [details |-> d.agent_details,
                         iata_code |-> d.agent_iata_code],
              issued_by |-> d.issued_by_details,
              routing |-> [departure |-> d.airport_departure,
                           departure_code |-> d.airport_departure_code,
                           destination |-> d.airport_destination,
                           to |-> d.route.to,
                           by |-> d.route.by,
                           flights |-> d.route.flights],
              rate_description |-> [items |-> ItemDicts(d.items),
                                    total_pieces |-> d.total_pieces,
                                    total_weight |-> d.total_weight,
                                    weight_scale |-> d.weight_scale,
                                    items_total |-> d.items_total],
              other_charges |-> ChargeDicts(d.other_charges),
              charges_summary |-> SummaryDict(d.charges_summary),
              currency |-> d.currency,
              insurance |-> d.insurance,
              value_carrier |-> d.value_carrier,
              value_customs |-> d.value_customs,
              reference_number |-> d.reference_number,
              handling_information |-> d.handling_information,
              accounting_information |-> d.accounting_information,
              sci |-> d.sci,
              signatures |-> [shipper |-> d.shipper_signature,
                              carrier |-> d.carrier_signature,
                              date |-> d.carrier_date,
                              place |-> d.carrier_place],
              notes |-> d.notes]

---------------------------------------------------------------------------
(* Input documents: the XML blobs the model is run on.                     *)

Txt_USD == <<"U", "S", "D">>
Txt_EUR == <<"E", "U", "R">>
Txt_CDG == <<"C", "D", "G">>
Txt_JFK == <<"J", "F", "K">>
Txt_AF == <<"A", "F">>
Txt_DL == <<"D", "L">>
Txt_AF123 == <<"A", "F", "1", "2", "3">>
Txt_DL42 == <<"D", "L", "4", "2">>
Txt_PS == <<"P", "S">>
Txt_AWC == <<"A", "W", "C">>
Txt_ZZ == <<"Z", "Z">>
Txt_K == <<"K">>
Txt_L == <<"L">>
Txt_Textiles == <<"T", "E", "X", "T", "I", "L", "E", "S">>
Txt_Parts == <<"P", "A", "R", "T", "S">>
Txt_Books == <<"B", "O", "O", "K", "S">>
Txt_DueCarrier == <<"d", "u", "e", " ", "c", "a", "r", "r", "i", "e", "r">>
Txt_DueAgent == <<"d", "u", "e", " ", "a", "g", "e", "n", "t">>
Txt_Fragile == <<"F", "R", "A", "G", "I", "L", "E">>
Txt_Acme == <<" ", "A", "C", "M", "E", " ">>
Txt_Blank == <<" ", " ">>
Txt_NotANumber == <<"n", "/", "a">>
Num_1 == <<"1">>
Num_2 == <<"2">>
Num_3_padded == <<" ", "3", " ">>
Num_10_5 == <<"1", "0", ".", "5">>
Num_9_0 == <<"9", ".", "0">>
Num_4_25 == <<"4", ".", "2", "5">>
Num_0_005 == <<"0", ".", "0", "0", "5">>
Num_150 == <<"1", "5", "0", ".", "0">>
Num_180 == <<"1", "8", "0", ".", "0">>
Num_25 == <<"2", "5", ".", "0">>
Num_12_5 == <<"1", "2", ".", "5">>
Num_7 == <<"7">>
Num_60 == <<"6", "0", ".", "0", "0">>
Num_1_5 == <<"1", ".", "5">>

Num_1_5_comma == <<"1", ",", "5">>
Txt_L_padded == <<" ", "L", " ">>
Txt_CDG_padded == <<" ", "C", "D", "G", " ">>
Num_12abc == <<"1", "2", "a", "b", "c">>

\* <tag><string>t1</string><string>t2</string>...</tag>
StringList(tag, texts) ==
    Node(tag, [i \in 1..Len(texts) |-> Leaf("string", texts[i])])

ItemElem(pieces, gross, chargeable, rate, total, nature, number) ==
    Node("awb-item",
         <<Leaf("item-number", number), Leaf("pieces", pieces),
           Leaf("gross-weight", gross), Leaf("scale", Txt_L),
           Leaf("rate-class", <<"Q">>), Leaf("chargeable-weight", chargeable),
           Leaf("rate-charge", rate), Leaf("total", total),
           Leaf("nature", nature), Leaf("dimensions", <<"1", "x", "1">>)>>)

ChargeElem(code, amount, due) ==
    Node("awb-other-charges",
         <<Leaf("code", code), Leaf("amount", amount), Leaf("due", due),
           Leaf("three-letter-code", <<"X", "Y", "Z">>)>>)

\* Doc A: every tag the parser reads is present (the scenario of the
\* specification: 2 pieces, 10.5 kg, one line item, 180.0 prepaid)
DocAKids ==
    <<Leaf("awb-type", <<"M">>),
      Leaf("airline-prefix", <<"0", "5", "7">>),
      Leaf("awb-serial-number", <<"1", "2", "3", "4">>),
      Leaf("hawb", <<"H", "1">>),
      Leaf("weight-payment-type", <<"P">>),
      Leaf("other-charges-payment-type", <<"P">>),
      Leaf("calculations", <<"A">>),
      Leaf("shipper-details", Txt_Acme),
      Leaf("shipper-account-number", <<"S", "1">>),
      Leaf("consignee-details", Txt_Acme),
      Leaf("consignee-account-number", <<"C", "1">>),
      Leaf("agent-details", Txt_Acme),
      Leaf("agent-iata-cargo-numeric-code", <<"7", "7">>),
      Leaf("issued-by-details", Txt_Acme),
      Leaf("airport-departure", Txt_CDG),
      Leaf("airport-city-code-departure", Txt_CDG),
      Leaf("airport-destination", Txt_JFK),
      StringList("route-to", <<Txt_CDG>>),
      StringList("route-by", <<Txt_AF>>),
      StringList("requested-flight", <<Txt_AF123>>),
      Node("items",
           <<ItemElem(Num_2, Num_10_5, Num_9_0, Num_12_5, Num_150,
                      Txt_Textiles, Num_1)>>),
      Leaf("item-pieces", Num_2),
      Leaf("item-weight", Num_10_5),
      Leaf("item-weight-scale", Txt_L),
      Leaf("item-total", Num_150),
      Node("other-charges", <<ChargeElem(Txt_PS, Num_25, Txt_DueCarrier)>>),
      StringList("weight-charge", <<Num_150, Num_1>>),
      StringList("valuation-charge", <<Num_2, Num_1>>),
      StringList("tax", <<Num_1_5, Num_1>>),
      StringList("other-due-agent", <<Num_1_5, Num_1>>),
      StringList("other-due-carrier", <<Num_25, Num_1>>),
      StringList("weight-total", <<Num_180, Num_7>>),
      Leaf("currency", Txt_USD),
      Leaf("insurance", <<"N">>),
      Leaf("value-carrier", <<"N", "V", "D">>),
      Leaf("value-customs", <<"N", "C", "V">>),
      Leaf("reference-number", <<"R", "1">>),
      Leaf("handling-information", Txt_Fragile),
      Leaf("accounting-information", <<"A", "C">>),
      Leaf("sci", <<"X">>),
      Leaf("shipper-signature", Txt_Acme),
      Leaf("carrier-signature", Txt_Acme),
      Leaf("carrier-date", <<"0", "1">>),
      Leaf("carrier-place", Txt_CDG),
      Leaf("notes", <<"n">>)>>

DocA == Node("awb", DocAKids)

\* Doc B: two line items, two other charges (one with a code outside the
\* lookup table), two stop-overs around an empty <string/>, padded numbers,
\* a weight-total with a single value
DocB ==
    Node("awb",
         <<Leaf("currency", Txt_EUR),
           Leaf("item-pieces", Num_3_padded),
           Leaf("item-weight", Num_4_25),
           Leaf("item-total", Num_60),
           Node("items",
                <<ItemElem(Num_1, Num_1_5, Num_1_5, Num_25, Num_25,
                           Txt_Parts, Num_1),
                  ItemElem(Num_2, Num_4_25, Num_4_25, Num_7, Num_60,
                           Txt_Books, Num_2)>>),
           Node("other-charges",
                <<ChargeElem(Txt_AWC, Num_12_5, Txt_DueAgent),
                  ChargeElem(Txt_ZZ, Num_7, Txt_DueCarrier)>>),
           StringList("weight-total", <<Num_12_5>>),
           StringList("route-to", <<Txt_CDG, <<>>, Txt_JFK>>),
           StringList("route-by", <<Txt_AF, Txt_DL>>),
           StringList("requested-flight", <<Txt_AF123, Txt_DL42>>)>>)

\* Doc C: well-formed, no container at all, a non-numeric piece count, a
\* blank currency and a weight of 0.005
DocC ==
    Node("awb",
         <<Leaf("item-pieces", Txt_NotANumber),
           Leaf("item-weight", Num_0_005),
           Leaf("currency", Txt_Blank)>>)

\* the blobs the report builders' documents carry
Pool ==
    {NoBlob, EmptyBlob, BadUtf8Blob, TruncatedBlob,
     XmlBlob(DocA), XmlBlob(DocB), XmlBlob(DocC)}

\* the tags AWBParser.parse looks up among the root's children
AllTags == {DocAKids[i].tag : i \in 1..Len(DocAKids)}

CoreTags ==
    {"item-pieces", "item-weight", "item-weight-scale", "item-total",
     "currency", "handling-information", "route-to", "items",
     "other-charges", "weight-total"}

\* Doc A with only the root tags of S
DocAWith(S) == Node("awb", SelectSeq(DocAKids, LAMBDA k : k.tag \in S))

\* the sets of root tags the parser is run on: every subset of CoreTags with
\* all or none of the others, and every set missing a single tag
PresentSets ==
    {S \cup T : S \in SUBSET CoreTags, T \in {{}, AllTags \ CoreTags}}
        \cup {AllTags \ {t} : t \in AllTags}

ItemTags ==
    {"item-number", "pieces", "gross-weight", "scale", "rate-class",
     "chargeable-weight", "rate-charge", "total", "nature", "dimensions"}
ChargeTags == {"code", "amount", "due", "three-letter-code"}

\* elem with only those of its children whose tag is in S
Prune(elem, S) ==
    [elem EXCEPT !.kids = SelectSeq(elem.kids, LAMBDA k : k.tag \in S)]

\* Doc A whose line item and other charge keep only the child tags of S
DocAInner(S) ==
    Node("awb",
         [i \in 1..Len(DocAKids) |->
            IF DocAKids[i].tag \in {"items", "other-charges"}
            THEN [DocAKids[i] EXCEPT
                    !.kids = [j \in 1..Len(DocAKids[i].kids) |->
                                Prune(DocAKids[i].kids[j], S)]]
            ELSE DocAKids[i]])

InnerSets ==
    {{}} \cup {(ItemTags \cup ChargeTags) \ {t} : t \in ItemTags \cup ChargeTags}

\* elem with each child tagged `tag` replaced by `new`
ElemReplace(elem, tag, new) ==
    [elem EXCEPT !.kids = [i \in 1..Len(elem.kids) |->
                             IF elem.kids[i].tag = tag THEN new
                             ELSE elem.kids[i]]]

\* Doc A with the root child tagged `tag` replaced by `new`
DocAReplace(tag, new) == ElemReplace(DocA, tag, new)

\* the line item and the other charge of Doc A
DocAItem == FindAll(Get(Find(DocA, "items")), "awb-item")[1]
DocACharge == FindAll(Get(Find(DocA, "other-charges")), "awb-other-charges")[1]

\* Doc A whose line item / other charge has the leaf `tag` holding `text`
DocAItemLeaf(tag, text) ==
    DocAReplace("items",
                Node("items", <<ElemReplace(DocAItem, tag, Leaf(tag, text))>>))
DocAChargeLeaf(tag, text) ==
    DocAReplace("other-charges",
                Node("other-charges",
                     <<ElemReplace(DocACharge, tag, Leaf(tag, text))>>))

\* the six prepaid/collect containers
PairTags ==
    {"weight-charge", "valuation-charge", "tax", "other-due-agent",
     "other-due-carrier", "weight-total"}

Note == Leaf("note", Txt_Fragile)

\* children of a prepaid/collect container: none, one, two and three values,
\* an empty or non-numeric value in either position, foreign children
PairShapes ==
    {<<>>,
     <<Leaf("string", Num_12_5)>>,
     <<Leaf("string", Num_12_5), Leaf("string", Num_7)>>,
     <<Leaf("string", Num_12_5), Leaf("string", Num_7), Leaf("string", Num_2)>>,
     <<Leaf("string", <<>>), Leaf("string", Num_7)>>,
     <<Leaf("string", Num_12_5), Leaf("string", <<>>)>>,
     <<Leaf("string", Txt_NotANumber), Leaf("string", Num_7)>>,
     <<Leaf("string", Num_12_5), Leaf("string", Num_1_5_comma)>>,
     <<Note, Leaf("string", Num_12_5), Note, Leaf("string", Num_7)>>,
     <<Note>>}

PairDocs == {DocAReplace(t, Node(t, k)) : t \in PairTags, k \in PairShapes}

Item1 == ItemElem(Num_1, Num_1_5, Num_1_5, Num_25, Num_25, Txt_Parts, <<"1">>)
Item2 == ItemElem(Num_2, Num_4_25, Num_4_25, Num_7, Num_60, Txt_Books, <<"2">>)
Item3 == ItemElem(Num_2, Num_10_5, Num_9_0, Num_12_5, Num_150, Txt_Textiles, <<"3">>)
Charge1 == ChargeElem(Txt_AWC, Num_12_5, Txt_DueAgent)
Charge2 == ChargeElem(Txt_ZZ, Num_7, Txt_DueCarrier)
Charge3 == ChargeElem(Txt_PS, Num_25, Txt_DueCarrier)

\* children of <items>: no, one, two and three line items, a repeated one,
\* foreign children in between
ItemShapes ==
    {<<>>, <<Item1>>, <<Item1, Item2>>, <<Item2, Item1, Item3>>,
     <<Item1, Item1>>, <<Note, Item3, Note, Item1>>, <<Note>>}

\* children of <other-charges>, likewise
ChargeShapes ==
    {<<>>, <<Charge1>>, <<Charge1, Charge2>>, <<Charge3, Charge1, Charge2>>,
     <<Charge2, Charge2>>, <<Note, Charge2, Note, Charge1>>, <<Note>>}

\* documents with a second container and with entries outside the container
StrayEntryDocs ==
    {Node("awb", <<Item3, Node("items", <<Item1, Item2>>),
                   Node("items", <<Item3>>), Charge3,
                   Node("other-charges", <<Charge1, Charge2>>),
                   Node("other-charges", <<Charge3>>)>>),
     Node("awb", <<Item1, Charge1>>)}

ListDocs ==
    {DocAReplace("items", Node("items", k)) : k \in ItemShapes}
        \cup {DocAReplace("other-charges", Node("other-charges", k)) :
                k \in ChargeShapes}
        \cup StrayEntryDocs

\* the three routing containers
RouteTags == {"route-to", "route-by", "requested-flight"}

\* children of a routing container: no, one, two and three stops, a stop
\* with no text at the start, in the middle and alone, padded text, foreign
\* children
RouteShapes ==
    {<<>>,
     <<Leaf("string", Txt_CDG)>>,
     <<Leaf("string", Txt_CDG), Leaf("string", Txt_JFK)>>,
     <<Leaf("string", Txt_JFK), Leaf("string", Txt_CDG), Leaf("string", Txt_AF)>>,
     <<Leaf("string", <<>>), Leaf("string", Txt_JFK)>>,
     <<Leaf("string", Txt_CDG), Leaf("string", <<>>), Leaf("string", Txt_JFK)>>,
     <<Leaf("string", <<>>)>>,
     <<Leaf("string", Txt_CDG_padded), Leaf("string", Txt_JFK)>>,
     <<Note, Leaf("string", Txt_CDG), Note, Leaf("string", Txt_JFK)>>}

RouteDocs == {DocAReplace(t, Node(t, k)) : t \in RouteTags, k \in RouteShapes}

\* texts found in a weight scale tag
ScaleTexts == {<<>>, Txt_Blank, Txt_K, Txt_L, Txt_L_padded}

ScaleDocs ==
    {DocAReplace("item-weight-scale", Leaf("item-weight-scale", t)) :
        t \in ScaleTexts}
        \cup {DocAItemLeaf("scale", t) : t \in ScaleTexts}

\* (container tag, prepaid field, collect field) of ChargesSummary
PairFields ==
    {<<"weight-charge", "weight_charge_prepaid", "weight_charge_collect">>,
     <<"valuation-charge", "valuation_charge_prepaid", "valuation_charge_collect">>,
     <<"tax", "tax_prepaid", "tax_collect">>,
     <<"other-due-agent", "other_due_agent_prepaid", "other_due_agent_collect">>,
     <<"other-due-carrier", "other_due_carrier_prepaid", "other_due_carrier_collect">>,
     <<"weight-total", "total_prepaid", "total_collect">>}

\* texts that neither int() nor float() accepts
BadNumbers == {Txt_NotANumber, Num_1_5_comma, Num_12abc}

\* Doc A with the k-th value of the pair container `tag` holding `text`
DocAPairValue(tag, k, text) ==
    LET c == Get(Find(DocA, tag))
    IN  DocAReplace(tag, [c EXCEPT !.kids[k].text = text])

\* Doc A with one numeric leaf holding `bad`, next to the record parse makes
\* of Doc A with the field decoded from that leaf set to zero
BadLeafCases(bad) ==
    LET d == BuildDetails(DocA)
    IN  {[doc |-> DocAReplace(p[2], Leaf(p[2], bad)),
          expect |-> [d EXCEPT ![p[1]] = 0]] :
            p \in {<<"total_pieces", "item-pieces">>,
                   <<"total_weight", "item-weight">>,
                   <<"items_total", "item-total">>}}
        \cup
        {[doc |-> DocAItemLeaf(p[2], bad),
          expect |-> [d EXCEPT !.items[1][p[1]] = 0]] :
            p \in {<<"pieces", "pieces">>, <<"gross_weight", "gross-weight">>,
                   <<"chargeable_weight", "chargeable-weight">>,
                   <<"rate_charge", "rate-charge">>, <<"total", "total">>}}
        \cup
        {[doc |-> DocAChargeLeaf("amount", bad),
          expect |-> [d EXCEPT !.other_charges[1].amount = 0]]}
        \cup
        {[doc |-> DocAPairValue(p[1], 1, bad),
          expect |-> [d EXCEPT !.charges_summary[p[2]] = 0]] : p \in PairFields}
        \cup
        {[doc |-> DocAPairValue(p[1], 2, bad),
          expect |-> [d EXCEPT !.charges_summary[p[3]] = 0]] : p \in PairFields}

AllBadLeafCases == UNION {BadLeafCases(bad) : bad \in BadNumbers}

BadLeafDocs == {c.doc : c \in AllBadLeafCases}

\* the arguments AWBParser.parse is called with
ParseInputs ==
    {NoBlob, EmptyBlob, BadUtf8Blob, TruncatedBlob, XmlBlob(DocB), XmlBlob(DocC)}
        \cup {XmlBlob(DocAWith(S)) : S \in PresentSets}
        \cup {XmlBlob(DocAInner(S)) : S \in InnerSets}
        \cup {XmlBlob(r) : r \in PairDocs \cup ListDocs \cup RouteDocs
                                  \cup ScaleDocs \cup BadLeafDocs}

---------------------------------------------------------------------------
(* Specification SpecParse: one call of AWBParser.parse.                   *)

NoTotals ==
    [pieces |-> 0, gross_weight |-> 0, chargeable_weight |-> 0,
     freight |-> 0, other_charges |-> 0, prepaid |-> 0]

\* none of the other operations has run
HeapIdle ==
    /\ heap = <<>>
    /\ calls = <<>>
    /\ finished = <<>>
    /\ mutations = 0

NoRequest == [op |-> "none", status |-> 0]

AuthIdle ==
    /\ users = <<>>
    /\ audit_log = <<>>
    /\ tokens = {}
    /\ now = 1
    /\ last = NoRequest

RestIdle ==
    /\ HeapIdle
    /\ AuthIdle

ExtraIdle ==
    /\ as_dict = None
    /\ pdf_footer = None
    /\ RestIdle

ReportIdle ==
    /\ documents = <<>>
    /\ idx = 1
    /\ parsed_docs = <<>>
    /\ totals = NoTotals
    /\ totals_row = None
    /\ summary_rows = <<>>
    /\ item_rows = <<>>
    /\ charge_rows = <<>>
    /\ routing_rows = <<>>
    /\ stats = None
    /\ pdf_totals = None
    /\ pdf_rows = <<>>
    /\ parse_calls = <<>>
    /\ document_id = 0
    /\ response = None
    /\ ExtraIdle

report_vars ==
    <<documents, idx, parsed_docs, totals, totals_row, summary_rows,
      item_rows, charge_rows, routing_rows, stats, pdf_totals, pdf_rows,
      parse_calls, document_id, response>>

endpoint_vars == <<document_id, response, extra_vars>>

\* no call of AWBParser.parse has been made for any document
NoCalls == [i \in 1..Len(documents) |-> 0]

EndpointIdle ==
    /\ document_id = 0
    /\ response = None
    /\ ExtraIdle

InitParse ==
    /\ xml_data \in ParseInputs
    /\ parse_result = None
    /\ pc = "call"
    /\ ReportIdle

\* result = AWBParser.parse(xml_data)
ParseCall ==
    /\ pc = "call"
    /\ parse_result' = Some(parse(xml_data))
    /\ pc' = "returned"
    /\ UNCHANGED <<xml_data, report_vars, extra_vars>>

\* as_dict = AWBParser.to_dict(result), for a call that returned
ToDictCall ==
    /\ pc = "returned"
    /\ Get(parse_result).raised = ""
    /\ as_dict' = Some(to_dict(Get(parse_result).value))
    /\ pc' = "converted"
    /\ UNCHANGED <<xml_data, parse_result, report_vars, pdf_footer, rest_vars>>

NextParse ==
    \/ ParseCall
    \/ ToDictCall

SpecParse == InitParse /\ [][NextParse]_vars

---------------------------------------------------------------------------
(* Properties of AWBParser.parse (specification SpecParse).                *)

Returned == pc = "returned"
Outcome == Get(parse_result)

\* C1: parse returns None, without raising, when its input is None or an
\* empty byte sequence.
C1_AbsentGivesNone ==
    (Returned /\ xml_data.kind \in {"None", "Empty"})
        => (Outcome.raised = "" /\ Outcome.value = None)

C1_Witness == Returned /\ xml_data.kind \in {"None", "Empty"}

\* C2: for a non-empty byte sequence that is not valid UTF-8 or not a
\* well-formed XML tree, parse returns None and no exception reaches the
\* caller.
C2_MalformedGivesNone ==
    (Returned /\ xml_data.kind \in {"BadUtf8", "Truncated"})
        => (Outcome.raised = "" /\ Outcome.value = None)

C2_Witness ==
    Returned /\ xml_data.kind = "BadUtf8" /\ Outcome.logged

\* the fields of AWBDetails read with _get_text, each with its tag
TextFieldTags ==
    {<<"awb_type", "awb-type">>, <<"airline_prefix", "airline-prefix">>,
     <<"serial_number", "awb-serial-number">>, <<"hawb", "hawb">>,
     <<"weight_payment_type", "weight-payment-type">>,
     <<"other_charges_payment_type", "other-charges-payment-type">>,
     <<"calculations", "calculations">>,
     <<"shipper_details", "shipper-details">>,
     <<"shipper_account", "shipper-account-number">>,
     <<"consignee_details", "consignee-details">>,
     <<"consignee_account", "consignee-account-number">>,
     <<"agent_details", "agent-details">>,
     <<"agent_iata_code", "agent-iata-cargo-numeric-code">>,
     <<"issued_by_details", "issued-by-details">>,
     <<"airport_departure", "airport-departure">>,
     <<"airport_departure_code", "airport-city-code-departure">>,
     <<"airport_destination", "airport-destination">>,
     <<"currency", "currency">>, <<"insurance", "insurance">>,
     <<"value_carrier", "value-carrier">>,
     <<"value_customs", "value-customs">>,
     <<"reference_number", "reference-number">>,
     <<"handling_information", "handling-information">>,
     <<"accounting_information", "accounting-information">>,
     <<"sci", "sci">>, <<"shipper_signature", "shipper-signature">>,
     <<"carrier_signature", "carrier-signature">>,
     <<"carrier_date", "carrier-date">>,
     <<"carrier_place", "carrier-place">>, <<"notes", "notes">>}

NumberFieldTags ==
    {<<"total_pieces", "item-pieces">>, <<"total_weight", "item-weight">>,
     <<"items_total", "item-total">>}

\* the fields of ChargesSummary, each with the tag of its pair container
SummaryFieldTags ==
    {<<"weight_charge_prepaid", "weight-charge">>,
     <<"weight_charge_collect", "weight-charge">>,
     <<"valuation_charge_prepaid", "valuation-charge">>,
     <<"valuation_charge_collect", "valuation-charge">>,
     <<"tax_prepaid", "tax">>, <<"tax_collect", "tax">>,
     <<"other_due_agent_prepaid", "other-due-agent">>,
     <<"other_due_agent_collect", "other-due-agent">>,
     <<"other_due_carrier_prepaid", "other-due-carrier">>,
     <<"other_due_carrier_collect", "other-due-carrier">>,
     <<"total_prepaid", "weight-total">>,
     <<"total_collect", "weight-total">>}

RouteFieldTags ==
    {<<"to", "route-to">>, <<"by", "route-by">>,
     <<"flights", "requested-flight">>}

ItemNumberFieldTags ==
    {<<"pieces", "pieces">>, <<"gross_weight", "gross-weight">>,
     <<"chargeable_weight", "chargeable-weight">>,
     <<"rate_charge", "rate-charge">>, <<"total", "total">>}

ItemTextFieldTags ==
    {<<"nature", "nature">>, <<"rate_class", "rate-class">>,
     <<"item_number", "item-number">>, <<"dimensions", "dimensions">>}

ChargeTextFieldTags ==
    {<<"code", "code">>, <<"due", "due">>,
     <<"three_letter_code", "three-letter-code">>}

\* elem has no child with that tag
Missing(elem, tag) == \A i \in 1..Len(elem.kids) : elem.kids[i].tag # tag

\* the children of the first child of root tagged `container` that are
\* tagged `tag`, in document order
Entries(root, container, tag) ==
    LET cs == {i \in 1..Len(root.kids) : root.kids[i].tag = container}
    IN  IF cs = {} THEN <<>>
        ELSE LET c == root.kids[CHOOSE i \in cs : \A j \in cs : i <= j]
             IN  SelectSeq(c.kids, LAMBDA k : k.tag = tag)

\* the tolerant defaults of every field but the weight scale codes
DefaultsButScale(root, d) ==
    /\ \A p \in TextFieldTags : Missing(root, p[2]) => d[p[1]] = <<>>
    /\ \A p \in NumberFieldTags : Missing(root, p[2]) => d[p[1]] = 0
    /\ \A p \in SummaryFieldTags :
          Missing(root, p[2]) => d.charges_summary[p[1]] = 0
    /\ \A p \in RouteFieldTags : Missing(root, p[2]) => d.route[p[1]] = <<>>
    /\ Missing(root, "items") => d.items = <<>>
    /\ Missing(root, "other-charges") => d.other_charges = <<>>
    /\ LET elems == Entries(root, "items", "awb-item")
       IN  /\ Len(d.items) = Len(elems)
           /\ \A k \in 1..Len(elems) :
                /\ \A p \in ItemNumberFieldTags :
                      Missing(elems[k], p[2]) => d.items[k][p[1]] = 0
                /\ \A p \in ItemTextFieldTags :
                      Missing(elems[k], p[2]) => d.items[k][p[1]] = <<>>
    /\ LET elems == Entries(root, "other-charges", "awb-other-charges")
       IN  /\ Len(d.other_charges) = Len(elems)
           /\ \A k \in 1..Len(elems) :
                /\ Missing(elems[k], "amount") => d.other_charges[k].amount = 0
                /\ \A p \in ChargeTextFieldTags :
                      Missing(elems[k], p[2]) => d.other_charges[k][p[1]] = <<>>

\* a missing weight scale tag decodes to `text`
ScaleDefaultIs(root, d, text) ==
    /\ Missing(root, "item-weight-scale") => d.weight_scale = text
    /\ LET elems == Entries(root, "items", "awb-item")
       IN  \A k \in 1..Len(elems) :
              (k <= Len(d.items) /\ Missing(elems[k], "scale"))
                  => d.items[k].scale = text

WellFormedReturned == Returned /\ xml_data.kind = "Xml"

\* C3 as stated: for a well-formed blob missing any subset of the optional
\* tags, parse never raises and every missing numeric field is 0, every
\* missing text field (the weight scale codes included) is the empty string
\* and every missing list is the empty list.
C3_AsStated ==
    WellFormedReturned
        => /\ Outcome.raised = ""
           /\ Outcome.value # None
           /\ DefaultsButScale(xml_data.root, Get(Outcome.value))
           /\ ScaleDefaultIs(xml_data.root, Get(Outcome.value), <<>>)

\* C3 (amended): for a well-formed blob missing any subset of the optional
\* tags, parse never raises and every missing numeric field is 0, every
\* missing text field is the empty string, except the weight scale codes
\* (weight_scale of the document, scale of a line item), which are "K", and
\* every missing list is the empty list.
C3_TolerantDefaults ==
    WellFormedReturned
        => /\ Outcome.raised = ""
           /\ Outcome.value # None
           /\ DefaultsButScale(xml_data.root, Get(Outcome.value))
           /\ ScaleDefaultIs(xml_data.root, Get(Outcome.value), <<"K">>)

C3_Witness ==
    /\ WellFormedReturned
    /\ Outcome.value # None
    /\ \A t \in {"item-weight-scale", "currency", "item-pieces", "items",
                 "route-to", "weight-total"} : Missing(xml_data.root, t)
    /\ ~Missing(xml_data.root, "item-weight")

---------------------------------------------------------------------------
(* ExportService.export_detailed_awb_report_excel.                         *)
(* A document is [document_number, document_data]; the other columns of    *)
(* Document (reference, date, shipper, ...) are copied to the sheets next  *)
(* to document_number and take no part in any computation.                 *)

NatureMax == 100

Arrow == <<" ", "→", " ">>
Comma == <<",", " ">>

Name_PS == <<"F", "r", "a", "i", "s", " ", "d", "e", " ", "s", "é", "c", "u", "r", "i", "t", "é">>
Name_AWC == <<"A", "i", "r", " ", "W", "a", "y", "b", "i", "l", "l", " ", "C", "h", "a", "r", "g", "e">>
Name_FC == <<"F", "u", "e", "l", " ", "S", "u", "r", "c", "h", "a", "r", "g", "e">>
Name_SC == <<"S", "e", "c", "u", "r", "i", "t", "y", " ", "C", "h", "a", "r", "g", "e">>
Name_MY == <<"M", "i", "s", "c", "e", "l", "l", "a", "n", "e", "o", "u", "s", " ", "C", "h", "a", "r", "g", "e", "s">>
Name_RA == <<"D", "a", "n", "g", "e", "r", "o", "u", "s", " ", "G", "o", "o", "d", "s">>
Name_SR == <<"S", "c", "r", "e", "e", "n", " ", "C", "h", "a", "r", "g", "e">>
Name_AW == <<"A", "W", "B", " ", "F", "e", "e">>

\* charge_code_names, as (code, description) pairs
charge_code_names ==
    {<<Txt_PS, Name_PS>>, <<Txt_AWC, Name_AWC>>,
     <<<<"F", "C">>, Name_FC>>, <<<<"S", "C">>, Name_SC>>,
     <<<<"M", "Y">>, Name_MY>>, <<<<"R", "A">>, Name_RA>>,
     <<<<"S", "R">>, Name_SR>>, <<<<"A", "W">>, Name_AW>>}

Doc(number, blob) == [document_number |-> number, document_data |-> blob]

\* the document lists of length n over Pool, numbered 1..n
DocLists(n) ==
    {[i \in 1..n |-> Doc(i, f[i])] : f \in [1..n -> Pool]}

\* AWBParser.parse(doc.document_data) if doc.document_data else None
ParseDoc(doc) ==
    IF Truthy(doc.document_data) THEN parse(doc.document_data)
    ELSE Return(None)

\* faulty variant of SummaryFacts: the prepaid cell read from the weight
\* charge pair in place of the grand-total pair
SummaryFacts_WeightChargePrepaid(awb_details) ==
    IF ~IsNone(awb_details)
    THEN LET d == Get(awb_details)
         IN  [pieces |-> d.total_pieces,
              gross_weight |-> d.total_weight,
              chargeable_weight |->
                 SumSeq([k \in 1..Len(d.items) |-> d.items[k].chargeable_weight]),
              currency |-> d.currency,
              items_total |-> d.items_total,
              other_charges_sum |->
                 SumSeq([k \in 1..Len(d.other_charges) |-> d.other_charges[k].amount]),
              prepaid_total |-> d.charges_summary.weight_charge_prepaid]
    ELSE [pieces |-> 0, gross_weight |-> 0, chargeable_weight |-> 0,
          currency |-> <<>>, items_total |-> 0, other_charges_sum |-> 0,
          prepaid_total |-> 0]

\* faulty variant of SummaryFacts: the PDF table's "-" as currency default
SummaryFacts_DashCurrency(awb_details) ==
    IF ~IsNone(awb_details)
    THEN LET d == Get(awb_details)
         IN  [pieces |-> d.total_pieces,
              gross_weight |-> d.total_weight,
              chargeable_weight |->
                 SumSeq([k \in 1..Len(d.items) |-> d.items[k].chargeable_weight]),
              currency |-> d.currency,
              items_total |-> d.items_total,
              other_charges_sum |->
                 SumSeq([k \in 1..Len(d.other_charges) |-> d.other_charges[k].amount]),
              prepaid_total |-> d.charges_summary.total_prepaid]
    ELSE [pieces |-> 0, gross_weight |-> 0, chargeable_weight |-> 0,
          currency |-> <<"-">>, items_total |-> 0, other_charges_sum |-> 0,
          prepaid_total |-> 0]

\* faulty variant of SummaryFacts: the pieces are summed over the line items
SummaryFacts_PiecesFromItems(awb_details) ==
    IF ~IsNone(awb_details)
    THEN LET d == Get(awb_details)
         IN  [pieces |-> SumSeq([k \in 1..Len(d.items) |-> d.items[k].pieces]),
              gross_weight |-> d.total_weight,
              chargeable_weight |->
                 SumSeq([k \in 1..Len(d.items) |-> d.items[k].chargeable_weight]),
              currency |-> d.currency,
              items_total |-> d.items_total,
              other_charges_sum |->
                 SumSeq([k \in 1..Len(d.other_charges) |-> d.other_charges[k].amount]),
              prepaid_total |-> d.charges_summary.total_prepaid]
    ELSE [pieces |-> 0, gross_weight |-> 0, chargeable_weight |-> 0,
          currency |-> <<>>, items_total |-> 0, other_charges_sum |-> 0,
          prepaid_total |-> 0]

\* the seven per-document locals of the summary loop (lines 413-428)
SummaryFacts(awb_details) ==
    IF ~IsNone(awb_details)
    THEN LET d == Get(awb_details)
         IN  [pieces |-> d.total_pieces,
              gross_weight |-> d.total_weight,
              chargeable_weight |->
                 SumSeq([k \in 1..Len(d.items) |-> d.items[k].chargeable_weight]),
              currency |-> d.currency,
              items_total |-> d.items_total,
              other_charges_sum |->
                 SumSeq([k \in 1..Len(d.other_charges) |-> d.other_charges[k].amount]),
              prepaid_total |-> d.charges_summary.total_prepaid]
    ELSE [pieces |-> 0, gross_weight |-> 0, chargeable_weight |-> 0,
          currency |-> <<>>, items_total |-> 0, other_charges_sum |-> 0,
          prepaid_total |-> 0]

\* faulty variant of AddTotals: gross weight added to the chargeable total
AddTotals_GrossForChargeable(t, facts) ==
    [pieces |-> t.pieces + facts.pieces,
     gross_weight |-> t.gross_weight + facts.gross_weight,
     chargeable_weight |-> t.chargeable_weight + facts.gross_weight,
     freight |-> t.freight + facts.items_total,
     other_charges |-> t.other_charges + facts.other_charges_sum,
     prepaid |-> t.prepaid + facts.prepaid_total]

\* the six += of the summary loop (lines 430-435)
AddTotals(t, facts) ==
    [pieces |-> t.pieces + facts.pieces,
     gross_weight |-> t.gross_weight + facts.gross_weight,
     chargeable_weight |-> t.chargeable_weight + facts.chargeable_weight,
     freight |-> t.freight + facts.items_total,
     other_charges |-> t.other_charges + facts.other_charges_sum,
     prepaid |-> t.prepaid + facts.prepaid_total]

\* the cells of one row of the summary sheet (lines 437-451)
SummaryRow(doc, facts) ==
    [document_number |-> doc.document_number,
     pieces |-> facts.pieces,
     gross_weight |-> facts.gross_weight,
     chargeable_weight |-> facts.chargeable_weight,
     currency |-> facts.currency,
     items_total |-> facts.items_total,
     other_charges_sum |-> facts.other_charges_sum,
     prepaid_total |-> facts.prepaid_total]

\* the rows one document adds to the line-item sheet (lines 487-503)
LineItemRows(doc, awb_details) ==
    IF ~IsNone(awb_details) /\ Get(awb_details).items # <<>>
    THEN LET d == Get(awb_details)
         IN  [k \in 1..Len(d.items) |->
                [document_number |-> doc.document_number,
                 pieces |-> d.items[k].pieces,
                 gross_weight |-> d.items[k].gross_weight,
                 chargeable_weight |-> d.items[k].chargeable_weight,
                 rate_charge |-> d.items[k].rate_charge,
                 total |-> d.items[k].total,
                 nature |-> IF d.items[k].nature # <<>>
                            THEN Take(d.items[k].nature, NatureMax) ELSE <<>>,
                 currency |-> d.currency]]
    ELSE <<>>

\* faulty variant of ChargeDescription: .get(code) with an empty default
ChargeDescription_DropUnknown(code) ==
    IF \E p \in charge_code_names : p[1] = code
    THEN (CHOOSE p \in charge_code_names : p[1] = code)[2]
    ELSE <<>>

\* charge_code_names.get(charge.code, charge.code)
ChargeDescription(code) ==
    IF \E p \in charge_code_names : p[1] = code
    THEN (CHOOSE p \in charge_code_names : p[1] = code)[2]
    ELSE code

\* the rows one document adds to the charges sheet (lines 530-543)
ChargeRows(doc, awb_details) ==
    IF ~IsNone(awb_details) /\ Get(awb_details).other_charges # <<>>
    THEN LET d == Get(awb_details)
         IN  [k \in 1..Len(d.other_charges) |->
                [document_number |-> doc.document_number,
                 code |-> d.other_charges[k].code,
                 description |-> ChargeDescription(d.other_charges[k].code),
                 amount |-> d.other_charges[k].amount,
                 due |-> d.other_charges[k].due,
                 currency |-> d.currency]]
    ELSE <<>>

\* filter(None, list)
FilterNone(list) == SelectSeq(list, LAMBDA x : x # <<>>)

\* faulty variant of RoutingRow: stop-overs joined like carriers
RoutingRow_CommaEverywhere(doc, awb_details) ==
    LET has == ~IsNone(awb_details)
        route == IF has THEN Get(awb_details).route
                 ELSE [to |-> <<>>, by |-> <<>>, flights |-> <<>>]
    IN  [document_number |-> doc.document_number,
         via |-> Join(FilterNone(route.to), Comma),
         carriers |-> Join(FilterNone(route.by), Comma),
         flights |-> Join(FilterNone(route.flights), Comma),
         handling |-> IF has THEN Get(awb_details).handling_information
                      ELSE <<>>]

\* the row one document adds to the routing sheet (lines 559-585)
RoutingRow(doc, awb_details) ==
    LET has == ~IsNone(awb_details)
        route == IF has THEN Get(awb_details).route
                 ELSE [to |-> <<>>, by |-> <<>>, flights |-> <<>>]
    IN  [document_number |-> doc.document_number,
         via |-> IF has /\ route.to # <<>>
                 THEN Join(FilterNone(route.to), Arrow) ELSE <<>>,
         carriers |-> IF has /\ route.by # <<>>
                      THEN Join(FilterNone(route.by), Comma) ELSE <<>>,
         flights |-> IF has /\ route.flights # <<>>
                     THEN Join(FilterNone(route.flights), Comma) ELSE <<>>,
         handling |-> IF has THEN Get(awb_details).handling_information
                      ELSE <<>>]

\* round(num / den, k) for den > 0, as a count of 10^-k units when num / den
\* is in those units: the nearest integers to num / den. An exact decimal
\* tie has two: Python rounds the binary float, which lies on either side
\* of the tie or (when exactly representable) goes to the even neighbour.
RoundDiv(num, den) ==
    LET q == (2 * num + den) \div (2 * den)
    IN  IF (2 * num + den) % (2 * den) = 0 THEN {q - 1, q} ELSE {q}

\* truncating division
TruncDiv(num, den) == {num \div den}

\* faulty variant of Average: truncation in place of rounding
Average_Truncated(num, den, n) ==
    IF n # 0 THEN TruncDiv(num, den * n) ELSE {0}

\* round(total / len(documents), k) if documents else 0
Average(num, den, n) ==
    IF n # 0 THEN RoundDiv(num, den * n) ELSE {0}

\* stats_data (lines 602-613): the values it can hold. Rounded totals and
\* the prepaid average count hundredths, the other two averages tenths.
stats_data(n, t) ==
    {[document_count |-> n,
      total_pieces |-> t.pieces,
      total_gross_weight |-> gw,
      total_chargeable_weight |-> cw,
      total_freight |-> fr,
      total_other_charges |-> oc,
      total_prepaid |-> pp,
      avg_pieces |-> ap,
      avg_weight |-> aw,
      avg_prepaid |-> am] :
        gw \in RoundDiv(t.gross_weight, Scale \div 100),
        cw \in RoundDiv(t.chargeable_weight, Scale \div 100),
        fr \in RoundDiv(t.freight, Scale \div 100),
        oc \in RoundDiv(t.other_charges, Scale \div 100),
        pp \in RoundDiv(t.prepaid, Scale \div 100),
        ap \in Average(t.pieces * 10, 1, n),
        aw \in Average(t.gross_weight, Scale \div 10, n),
        am \in Average(t.prepaid, Scale \div 100, n)}

ParserIdle ==
    /\ xml_data = NoBlob
    /\ parse_result = None

Init ==
    /\ ParserIdle
    /\ documents \in UNION {DocLists(n) : n \in 0..MaxDocs}
    /\ pc = "summary"
    /\ idx = 1
    /\ parsed_docs = <<>>
    /\ totals = NoTotals
    /\ totals_row = None
    /\ summary_rows = <<>>
    /\ item_rows = <<>>
    /\ charge_rows = <<>>
    /\ routing_rows = <<>>
    /\ stats = None
    /\ pdf_totals = None
    /\ pdf_rows = <<>>
    /\ parse_calls = NoCalls
    /\ EndpointIdle

\* calls with one more call of AWBParser.parse for the i-th document when
\* the guard "if doc.document_data" lets the call happen
CountCall(counts, i, doc) ==
    IF Truthy(doc.document_data) THEN [counts EXCEPT ![i] = @ + 1] ELSE counts

\* one iteration of the summary loop (lines 409-454); an exception leaving
\* AWBParser.parse would leave the handler
SummaryStep ==
    /\ pc = "summary"
    /\ idx <= Len(documents)
    /\ LET doc == documents[idx]
           call == ParseDoc(doc)
           awb_details == call.value
           facts == SummaryFacts(awb_details)
       IN  IF call.raised # ""
           THEN /\ pc' = "raised"
                /\ UNCHANGED <<idx, parsed_docs, totals, summary_rows,
                               parse_calls>>
           ELSE /\ parse_calls' = CountCall(parse_calls, idx, doc)
                /\ parsed_docs' =
                      Append(parsed_docs, [doc |-> doc, awb_details |-> awb_details])
                /\ totals' = IF ~IsNone(awb_details)
                             THEN AddTotals(totals, facts) ELSE totals
                /\ summary_rows' = Append(summary_rows, SummaryRow(doc, facts))
                /\ idx' = idx + 1
                /\ pc' = pc
    /\ UNCHANGED <<xml_data, parse_result, documents, totals_row, item_rows,
                   charge_rows, routing_rows, stats, pdf_totals, pdf_rows,
                   endpoint_vars>>

\* the TOTAUX row written after the loop (lines 456-465)
SummaryTotalsRow ==
    /\ pc = "summary"
    /\ idx > Len(documents)
    /\ totals_row' = Some(totals)
    /\ pc' = "items"
    /\ UNCHANGED <<xml_data, parse_result, documents, idx, parsed_docs, totals,
                   summary_rows, item_rows, charge_rows, routing_rows, stats,
                   pdf_totals, pdf_rows,
                   parse_calls, endpoint_vars>>

\* sheet 2 (lines 485-503)
ItemsSheet ==
    /\ pc = "items"
    /\ item_rows' =
          Flatten([i \in 1..Len(parsed_docs) |->
                     LineItemRows(parsed_docs[i].doc, parsed_docs[i].awb_details)])
    /\ pc' = "charges"
    /\ UNCHANGED <<xml_data, parse_result, documents, idx, parsed_docs, totals,
                   totals_row, summary_rows, charge_rows, routing_rows, stats,
                   pdf_totals, pdf_rows,
                   parse_calls, endpoint_vars>>

\* sheet 3 (lines 528-543)
ChargesSheet ==
    /\ pc = "charges"
    /\ charge_rows' =
          Flatten([i \in 1..Len(parsed_docs) |->
                     ChargeRows(parsed_docs[i].doc, parsed_docs[i].awb_details)])
    /\ pc' = "routing"
    /\ UNCHANGED <<xml_data, parse_result, documents, idx, parsed_docs, totals,
                   totals_row, summary_rows, item_rows, routing_rows, stats,
                   pdf_totals, pdf_rows,
                   parse_calls, endpoint_vars>>

\* sheet 4 (lines 557-585)
RoutingSheet ==
    /\ pc = "routing"
    /\ routing_rows' =
          [i \in 1..Len(parsed_docs) |->
             RoutingRow(parsed_docs[i].doc, parsed_docs[i].awb_details)]
    /\ pc' = "stats"
    /\ UNCHANGED <<xml_data, parse_result, documents, idx, parsed_docs, totals,
                   totals_row, summary_rows, item_rows, charge_rows, stats,
                   pdf_totals, pdf_rows,
                   parse_calls, endpoint_vars>>

\* sheet 5 (lines 602-619), then wb.save and return
StatsSheet ==
    /\ pc = "stats"
    /\ \E s \in stats_data(Len(documents), totals) : stats' = Some(s)
    /\ pc' = "done"
    /\ UNCHANGED <<xml_data, parse_result, documents, idx, parsed_docs, totals,
                   totals_row, summary_rows, item_rows, charge_rows,
                   routing_rows, pdf_totals, pdf_rows,
                   parse_calls, endpoint_vars>>

Next ==
    \/ SummaryStep
    \/ SummaryTotalsRow
    \/ ItemsSheet
    \/ ChargesSheet
    \/ RoutingSheet
    \/ StatsSheet

Spec == Init /\ [][Next]_vars

---------------------------------------------------------------------------
(* Properties of export_detailed_awb_report_excel (specification Spec).     *)

\* the document's blob is a well-formed XML tree
Decodable(doc) == doc.document_data.kind = "Xml"

SummaryDone == pc \in {"items", "charges", "routing", "stats", "done"}

\* the sum of one column of the summary sheet
ColumnSum(field) ==
    SumSeq([i \in 1..Len(summary_rows) |-> summary_rows[i][field]])

\* C4: each of the six running totals equals the sum, over the documents
\* folded so far (all of them once the loop has ended), of the value
\* written in the document's summary row.
C4_TotalsAreColumnSums ==
    /\ totals.pieces = ColumnSum("pieces")
    /\ totals.gross_weight = ColumnSum("gross_weight")
    /\ totals.chargeable_weight = ColumnSum("chargeable_weight")
    /\ totals.freight = ColumnSum("items_total")
    /\ totals.other_charges = ColumnSum("other_charges_sum")
    /\ totals.prepaid = ColumnSum("prepaid_total")
    /\ (SummaryDone => (Len(summary_rows) = Len(documents)
                        /\ totals_row = Some(totals)))

C4_Witness ==
    /\ pc = "done"
    /\ Len(summary_rows) = 3
    /\ \A i \in 1..3 : summary_rows[i].chargeable_weight # summary_rows[i].gross_weight
    /\ totals.chargeable_weight > summary_rows[1].chargeable_weight
    /\ totals.prepaid > summary_rows[1].prepaid_total

\* |x|
Abs(x) == IF x < 0 THEN 0 - x ELSE x

\* a is a nearest integer to num / den (den > 0)
Nearest(a, num, den) == 2 * Abs(a * den - num) <= den

\* C5 as stated: the document count is the number of input documents, each
\* of the three averages equals its running total divided by that count
\* when the count is non-zero, and is 0 when the input is empty.
C5_AsStated ==
    pc = "done" =>
        LET s == Get(stats)
            n == Len(documents)
        IN  /\ s.document_count = n
            /\ n = 0 => (s.avg_pieces = 0 /\ s.avg_weight = 0 /\ s.avg_prepaid = 0)
            /\ n # 0 => /\ s.avg_pieces * n = totals.pieces * 10
                        /\ s.avg_weight * n * (Scale \div 10) = totals.gross_weight
                        /\ s.avg_prepaid * n * (Scale \div 100) = totals.prepaid

\* C5 (amended): the document count is the number of input documents
\* (decoded or not); when it is non-zero the pieces and gross weight
\* averages are the running total divided by the count rounded to one
\* decimal place and the prepaid average is that quotient rounded to two
\* decimal places; all three are 0 when the input is empty.
C5_RoundedAverages ==
    pc = "done" =>
        LET s == Get(stats)
            n == Len(documents)
        IN  /\ s.document_count = n
            /\ n = 0 => (s.avg_pieces = 0 /\ s.avg_weight = 0 /\ s.avg_prepaid = 0)
            /\ n # 0 => /\ Nearest(s.avg_pieces, totals.pieces * 10, n)
                        /\ Nearest(s.avg_weight, totals.gross_weight,
                                   n * (Scale \div 10))
                        /\ Nearest(s.avg_prepaid, totals.prepaid,
                                   n * (Scale \div 100))

\* the scenario of the specification: Doc A and a document without blob
C5_Witness ==
    /\ pc = "done"
    /\ Len(documents) = 2
    /\ documents[1].document_data = XmlBlob(DocA)
    /\ documents[2].document_data = NoBlob
    /\ Get(stats).document_count = 2
    /\ Get(stats).total_pieces = 2
    /\ Get(stats).total_gross_weight = 1050
    /\ Get(stats).total_prepaid = 18000
    /\ Get(stats).avg_pieces = 10
    /\ Get(stats).avg_prepaid = 9000

\* the text of the first child of elem tagged `tag`, stripped ("" if none)
ChildText(elem, tag) ==
    LET cs == {i \in 1..Len(elem.kids) : elem.kids[i].tag = tag}
    IN  IF cs = {} THEN <<>>
        ELSE Strip(elem.kids[CHOOSE i \in cs : \A j \in cs : i <= j].text)

\* (document number, text of `leaf`) of every `entry` element under the
\* `container` of every decodable document, in document then source order
SourcePairs(container, entry, leaf) ==
    Flatten([i \in 1..Len(documents) |->
               IF Decodable(documents[i])
               THEN LET es == Entries(documents[i].document_data.root,
                                      container, entry)
                    IN  [k \in 1..Len(es) |->
                           <<documents[i].document_number, ChildText(es[k], leaf)>>]
               ELSE <<>>])

ItemsDone == pc \in {"charges", "routing", "stats", "done"}

\* C6: the line-item sheet holds exactly one row per (document, awb-item)
\* pair of the decodable documents, in document order and, within a
\* document, in source order; other documents contribute no row.
C6_LineItemRows ==
    ItemsDone =>
        [r \in 1..Len(item_rows) |->
            <<item_rows[r].document_number, item_rows[r].nature>>]
          = SourcePairs("items", "awb-item", "nature")

\* item lists [i1], [i2, i3], []
C6_Witness ==
    /\ pc = "done"
    /\ Len(documents) = 3
    /\ documents[1].document_data = XmlBlob(DocA)
    /\ documents[2].document_data = XmlBlob(DocB)
    /\ documents[3].document_data = XmlBlob(DocC)
    /\ Len(item_rows) = 3
    /\ item_rows[1].document_number = 1
    /\ item_rows[2].document_number = 2 /\ item_rows[2].nature = Txt_Parts
    /\ item_rows[3].document_number = 2 /\ item_rows[3].nature = Txt_Books

\* a summary step of a document whose blob is absent or undecodable
FoldsUndecodable ==
    /\ pc = "summary"
    /\ idx <= Len(documents)
    /\ ~Decodable(documents[idx])

\* every written summary row belongs to the document at its position, and is
\* all zero with an empty currency when that document is not decodable
SummaryRowsInOrder ==
    /\ Len(summary_rows) <= Len(documents)
    /\ SummaryDone => Len(summary_rows) = Len(documents)
    /\ \A i \in 1..Len(summary_rows) :
          /\ summary_rows[i].document_number = documents[i].document_number
          /\ ~Decodable(documents[i]) =>
                /\ summary_rows[i].pieces = 0
                /\ summary_rows[i].gross_weight = 0
                /\ summary_rows[i].chargeable_weight = 0
                /\ summary_rows[i].items_total = 0
                /\ summary_rows[i].other_charges_sum = 0
                /\ summary_rows[i].prepaid_total = 0
                /\ summary_rows[i].currency = <<>>

\* C7: the summary sheet has exactly one row per input document, in input
\* order, whatever the decode outcome; the row of a document whose blob is
\* absent or undecodable is all zero with an empty currency, and folding
\* such a document leaves every running total unchanged.
C7_SummaryRows ==
    /\ []SummaryRowsInOrder
    /\ [][FoldsUndecodable => totals' = totals]_vars

\* three documents, the second malformed, the others with non-zero totals
C7_Witness ==
    /\ pc = "done"
    /\ Len(documents) = 3
    /\ documents[1].document_data = XmlBlob(DocA)
    /\ documents[2].document_data = TruncatedBlob
    /\ documents[3].document_data = XmlBlob(DocB)
    /\ Len(summary_rows) = 3
    /\ summary_rows[2].pieces = 0
    /\ summary_rows[3].pieces = 3
    /\ totals.pieces = 5

RoutingDone == pc \in {"stats", "done"}

\* C8: the routing sheet has exactly one row per input document, in input
\* order; for a decoded document the stop-over field is route.to joined with
\* " -> " (the arrow character), carriers and flights are route.by and
\* route.flights joined with ", "; for a document without details the three
\* fields and the handling information are empty.
C8_RoutingRows ==
    RoutingDone =>
        /\ Len(routing_rows) = Len(documents)
        /\ \A i \in 1..Len(documents) :
              LET row == routing_rows[i]
                  awb_details == parsed_docs[i].awb_details
              IN  /\ row.document_number = documents[i].document_number
                  /\ Decodable(documents[i]) <=> ~IsNone(awb_details)
                  /\ ~IsNone(awb_details) =>
                        /\ row.via = Join(Get(awb_details).route.to,
                                          <<" ", "→", " ">>)
                        /\ row.carriers = Join(Get(awb_details).route.by,
                                               <<",", " ">>)
                        /\ row.flights = Join(Get(awb_details).route.flights,
                                              <<",", " ">>)
                  /\ IsNone(awb_details) =>
                        /\ row.via = <<>>
                        /\ row.carriers = <<>>
                        /\ row.flights = <<>>
                        /\ row.handling = <<>>

C8_Witness ==
    /\ pc = "done"
    /\ Len(documents) = 3
    /\ documents[1].document_data = XmlBlob(DocB)
    /\ documents[2].document_data = BadUtf8Blob
    /\ documents[3].document_data = XmlBlob(DocC)
    /\ routing_rows[1].via = Txt_CDG \o <<" ", "→", " ">> \o Txt_JFK
    /\ routing_rows[1].carriers = Txt_AF \o <<",", " ">> \o Txt_DL
    /\ routing_rows[2].via = <<>>
    /\ routing_rows[3].via = <<>>

ChargesDone == pc \in {"routing", "stats", "done"}

\* C9: the charges sheet holds exactly one row per (document, other charge)
\* pair of the decodable documents, in document then source order; a row's
\* description is the lookup table's entry for its code when the table has
\* one and the code itself otherwise.
C9_ChargeRows ==
    ChargesDone =>
        /\ [r \in 1..Len(charge_rows) |->
               <<charge_rows[r].document_number, charge_rows[r].code>>]
             = SourcePairs("other-charges", "awb-other-charges", "code")
        /\ \A r \in 1..Len(charge_rows) :
              \/ <<charge_rows[r].code, charge_rows[r].description>>
                     \in charge_code_names
              \/ /\ \A p \in charge_code_names : p[1] # charge_rows[r].code
                 /\ charge_rows[r].description = charge_rows[r].code

C9_Witness ==
    /\ pc = "done"
    /\ Len(documents) = 2
    /\ Len(charge_rows) = 3
    /\ charge_rows[1].code = Txt_PS /\ charge_rows[1].description = Name_PS
    /\ charge_rows[2].code = Txt_AWC /\ charge_rows[2].description = Name_AWC
    /\ charge_rows[3].code = Txt_ZZ /\ charge_rows[3].description = Txt_ZZ
    /\ charge_rows[3].document_number = 2

---------------------------------------------------------------------------
(* ExportService.export_detailed_awb_report_pdf.                           *)

\* documents[:50]
PdfRowCap == 50

DigitChars == <<"0", "1", "2", "3", "4", "5", "6", "7", "8", "9">>

RECURSIVE NatToText(_)
NatToText(n) ==
    IF n < 10 THEN <<DigitChars[n + 1]>>
    ELSE NatToText(n \div 10) \o <<DigitChars[(n % 10) + 1]>>

\* str(n) for an int n
IntToText(n) == IF n < 0 THEN <<"-">> \o NatToText(0 - n) ELSE NatToText(n)

Txt_More == <<" ", "a", "u", "t", "r", "e", "s", " ", "d", "o", "c", "u", "m", "e", "n", "t", "s">>

\* faulty variant of PdfTotals: the totals loop runs over documents[:50]
\* like the table loop
PdfTotals_ShownOnly(docs) ==
    LET shown == Take(docs, PdfRowCap)
        details == [i \in 1..Len(shown) |-> ParseDoc(shown[i]).value]
        decoded == {i \in 1..Len(shown) : ~IsNone(details[i])}
        column(field) ==
            SumSeq([i \in 1..Len(shown) |->
                      IF i \in decoded THEN Get(details[i])[field] ELSE 0])
    IN  [document_count |-> Len(docs),
         total_pieces |-> column("total_pieces"),
         total_weight |-> column("total_weight"),
         total_prepaid |->
            SumSeq([i \in 1..Len(shown) |->
                      IF i \in decoded
                      THEN Get(details[i]).charges_summary.total_prepaid ELSE 0]),
         currencies |-> {Get(details[i]).currency : i \in decoded} \ {<<>>}]

\* the totals loop (lines 681-693); currencies is a set
PdfTotals(docs) ==
    LET details == [i \in 1..Len(docs) |-> ParseDoc(docs[i]).value]
        decoded == {i \in 1..Len(docs) : ~IsNone(details[i])}
        column(field) ==
            SumSeq([i \in 1..Len(docs) |->
                      IF i \in decoded THEN Get(details[i])[field] ELSE 0])
    IN  [document_count |-> Len(docs),
         total_pieces |-> column("total_pieces"),
         total_weight |-> column("total_weight"),
         total_prepaid |->
            SumSeq([i \in 1..Len(docs) |->
                      IF i \in decoded
                      THEN Get(details[i]).charges_summary.total_prepaid ELSE 0]),
         currencies |-> {Get(details[i]).currency : i \in decoded} \ {<<>>}]

\* one document row of the table (lines 731-752): the values its pieces,
\* weight and total cells are formatted from, None standing for "-"
PdfDocRow(doc) ==
    LET awb_details == ParseDoc(doc).value
    IN  [kind |-> "doc",
         document_number |-> doc.document_number,
         label |-> <<>>,
         cells |-> IF ~IsNone(awb_details)
                   THEN Some([pieces |-> Get(awb_details).total_pieces,
                              weight |-> Get(awb_details).total_weight,
                              total |-> Get(awb_details).charges_summary.total_prepaid])
                   ELSE None]

\* the loop over documents[:50] (lines 730-752)
PdfDocRows(docs) ==
    LET shown == Take(docs, PdfRowCap)
    IN  [i \in 1..Len(shown) |-> PdfDocRow(shown[i])]

\* faulty variant of PdfOverflowRows: >= in place of >
PdfOverflowRows_OffByOne(n) ==
    IF n >= PdfRowCap
    THEN <<[kind |-> "overflow", document_number |-> 0,
            label |-> <<"+", " ">> \o IntToText(n - PdfRowCap) \o Txt_More,
            cells |-> None]>>
    ELSE <<>>

\* the "..." row appended when len(documents) > 50 (lines 754-755)
PdfOverflowRows(n) ==
    IF n > PdfRowCap
    THEN <<[kind |-> "overflow", document_number |-> 0,
            label |-> <<"+", " ">> \o IntToText(n - PdfRowCap) \o Txt_More,
            cells |-> None]>>
    ELSE <<>>

\* the blobs of the PDF builder's documents, repeated along the list
PdfCycle ==
    <<XmlBlob(DocA), NoBlob, XmlBlob(DocB), TruncatedBlob, XmlBlob(DocC)>>

\* n documents numbered 1..n whose blobs follow PdfCycle from offset p
PdfDocs(n, p) ==
    [i \in 1..n |-> Doc(i, PdfCycle[((i + p) % Len(PdfCycle)) + 1])]

\* calls after a loop over docs[:n] that parses each document it visits
\* whose document_data is truthy
CountCalls(counts, docs, n) ==
    [i \in 1..Len(docs) |->
       IF i <= n /\ Truthy(docs[i].document_data) THEN counts[i] + 1
       ELSE counts[i]]

\* the values the footer paragraph shows (lines 773-777): the counts as
\* they are, the weight to one decimal place and the amount to two, each
\* a nearest value at that resolution
PdfFooter(t) ==
    {[document_count |-> t.document_count,
      total_pieces |-> t.total_pieces,
      total_weight |-> w,
      total_prepaid |-> a,
      currencies |-> t.currencies] :
        w \in RoundDiv(t.total_weight, Scale \div 10),
        a \in RoundDiv(t.total_prepaid, Scale \div 100)}

InitPdf ==
    /\ ParserIdle
    /\ documents \in {PdfDocs(n, p) : n \in 0..MaxPdfDocs,
                                      p \in 0..(Len(PdfCycle) - 1)}
    /\ pc = "pdf_totals"
    /\ idx = 1
    /\ parsed_docs = <<>>
    /\ totals = NoTotals
    /\ totals_row = None
    /\ summary_rows = <<>>
    /\ item_rows = <<>>
    /\ charge_rows = <<>>
    /\ routing_rows = <<>>
    /\ stats = None
    /\ pdf_totals = None
    /\ pdf_rows = <<>>
    /\ parse_calls = NoCalls
    /\ EndpointIdle

excel_vars ==
    <<idx, parsed_docs, totals, totals_row, summary_rows, item_rows,
      charge_rows, routing_rows, stats>>

\* lines 680-722: the totals and the KPI table; an exception leaving
\* AWBParser.parse would leave the handler
PdfTotalsStep ==
    /\ pc = "pdf_totals"
    /\ IF \E i \in 1..Len(documents) : ParseDoc(documents[i]).raised # ""
       THEN pc' = "raised" /\ UNCHANGED <<pdf_totals, parse_calls>>
       ELSE /\ pc' = "pdf_table"
            /\ pdf_totals' = Some(PdfTotals(documents))
            /\ parse_calls' = CountCalls(parse_calls, documents, Len(documents))
    /\ UNCHANGED <<xml_data, parse_result, documents, excel_vars, pdf_rows,
                   endpoint_vars>>

\* lines 724-770: the documents table
PdfTableStep ==
    /\ pc = "pdf_table"
    /\ pdf_rows' = PdfDocRows(documents) \o PdfOverflowRows(Len(documents))
    /\ parse_calls' = CountCalls(parse_calls, documents, PdfRowCap)
    /\ pc' = "pdf_footer"
    /\ UNCHANGED <<xml_data, parse_result, documents, excel_vars, pdf_totals,
                   endpoint_vars>>

\* lines 772-782: the footer, doc.build and return
PdfBuildStep ==
    /\ pc = "pdf_footer"
    /\ \E f \in PdfFooter(Get(pdf_totals)) : pdf_footer' = Some(f)
    /\ pc' = "pdf_done"
    /\ UNCHANGED <<xml_data, parse_result, documents, excel_vars, pdf_totals,
                   pdf_rows, parse_calls, document_id, response, as_dict,
                   rest_vars>>

NextPdf ==
    \/ PdfTotalsStep
    \/ PdfTableStep
    \/ PdfBuildStep

SpecPdf == InitPdf /\ [][NextPdf]_vars

---------------------------------------------------------------------------
(* Properties of export_detailed_awb_report_pdf (specification SpecPdf).    *)

PdfTableDone == pc \in {"pdf_footer", "pdf_done"}

\* the text is "+ <decimal numeral of n> autres documents"
IsOverflowLabel(text, n) ==
    LET tail == Len(Txt_More)
        numeral == SubSeq(text, 3, Len(text) - tail)
    IN  /\ Len(text) > 2 + tail
        /\ SubSeq(text, 1, 2) = <<"+", " ">>
        /\ SubSeq(text, Len(text) - tail + 1, Len(text)) = Txt_More
        /\ IsIntText(numeral)
        /\ numeral[1] \in Digits
        /\ IntOf(numeral) = n

\* C10: the PDF table holds a row for each of the first 50 documents, in
\* order, and no other document row; with N > 50 documents exactly one
\* overflow row follows them and carries N - 50; with N <= 50 documents no
\* overflow row is appended.
C10_PdfRowCap ==
    PdfTableDone =>
        LET n == Len(documents)
            shown == IF n > 50 THEN 50 ELSE n
        IN  /\ Len(pdf_rows) = IF n > 50 THEN 51 ELSE n
            /\ \A k \in 1..shown :
                  /\ pdf_rows[k].kind = "doc"
                  /\ pdf_rows[k].document_number = documents[k].document_number
            /\ n > 50 =>
                  /\ pdf_rows[51].kind = "overflow"
                  /\ IsOverflowLabel(pdf_rows[51].label, n - 50)

C10_Witness ==
    /\ pc = "pdf_done"
    /\ Len(documents) = 52
    /\ Len(pdf_rows) = 51
    /\ pdf_rows[50].kind = "doc" /\ pdf_rows[50].document_number = 50
    /\ pdf_rows[51].kind = "overflow"
    /\ pdf_rows[51].label = <<"+", " ", "2">> \o Txt_More

---------------------------------------------------------------------------
(* Properties of the decoded pairs, lists and numbers (specification       *)
(* SpecParse).                                                             *)

\* the record parse returned and the root it was decoded from
Decoded == Get(Outcome.value)
SourceRoot == xml_data.root

\* C11: for each of the six charge categories the first `string` child of
\* the category's container gives the prepaid value and the second gives
\* the collect value; with a single child only prepaid is populated and
\* collect is 0.0; with no container or no child both are 0.0.
C11_PositionalPairs ==
    WellFormedReturned =>
        \A p \in PairFields :
            LET strings == Entries(SourceRoot, p[1], "string")
                prepaid == Decoded.charges_summary[p[2]]
                collect == Decoded.charges_summary[p[3]]
            IN  /\ Len(strings) = 0 => (prepaid = 0 /\ collect = 0)
                /\ Len(strings) >= 1 => prepaid = TryFloat(strings[1].text)
                /\ Len(strings) = 1 => collect = 0
                /\ Len(strings) >= 2 => collect = TryFloat(strings[2].text)

C11_Witness ==
    /\ Returned
    /\ xml_data = XmlBlob(DocAReplace("tax", StringList("tax", <<Num_12_5>>)))
    /\ Decoded.charges_summary.tax_prepaid = 12 * Scale + Scale \div 2
    /\ Decoded.charges_summary.tax_collect = 0
    /\ Decoded.charges_summary.total_prepaid = 180 * Scale
    /\ Decoded.charges_summary.total_collect = 7 * Scale

\* C12: the decoded line-item list has one entry per `awb-item` child of
\* the `items` container and the decoded other-charges list one entry per
\* `awb-other-charges` child of the `other-charges` container, both in
\* document order; a missing container gives the empty list.
C12_OneEntryPerChild ==
    WellFormedReturned =>
        LET items == Entries(SourceRoot, "items", "awb-item")
            charges == Entries(SourceRoot, "other-charges", "awb-other-charges")
        IN  /\ Len(Decoded.items) = Len(items)
            /\ \A k \in 1..Len(items) :
                  /\ Decoded.items[k].item_number = ChildText(items[k], "item-number")
                  /\ Decoded.items[k].nature = ChildText(items[k], "nature")
                  /\ Decoded.items[k].total = TryFloat(ChildText(items[k], "total"))
            /\ Len(Decoded.other_charges) = Len(charges)
            /\ \A k \in 1..Len(charges) :
                  /\ Decoded.other_charges[k].code = ChildText(charges[k], "code")
                  /\ Decoded.other_charges[k].due = ChildText(charges[k], "due")
                  /\ Decoded.other_charges[k].amount =
                        TryFloat(ChildText(charges[k], "amount"))
            /\ Missing(SourceRoot, "items") => Decoded.items = <<>>
            /\ Missing(SourceRoot, "other-charges") => Decoded.other_charges = <<>>

C12_Witness ==
    /\ Returned
    /\ xml_data = XmlBlob(DocAReplace("other-charges",
                             Node("other-charges", <<Charge3, Charge1, Charge2>>)))
    /\ Len(Decoded.other_charges) = 3
    /\ Decoded.other_charges[1].code = Txt_PS
    /\ Decoded.other_charges[2].code = Txt_AWC
    /\ Decoded.other_charges[3].code = Txt_ZZ
    /\ Len(Decoded.items) = 1

\* C13 as stated: each of the three routing lists has one entry per
\* `string` child of its container, the k-th entry being the k-th child's.
C13_AsStated ==
    WellFormedReturned =>
        \A p \in RouteFieldTags :
            LET strings == Entries(SourceRoot, p[2], "string")
                list == Decoded.route[p[1]]
            IN  /\ Len(list) = Len(strings)
                /\ \A k \in 1..Len(strings) : list[k] = strings[k].text

\* C13 (amended): each of the three routing lists holds, in document order,
\* the untrimmed text of every `string` child of its container that has
\* text; a child without text adds no entry, so the k-th entry is the text
\* of the k-th child with text.
C13_StopsWithText ==
    WellFormedReturned =>
        \A p \in RouteFieldTags :
            LET strings == SelectSeq(Entries(SourceRoot, p[2], "string"),
                                     LAMBDA s : s.text # <<>>)
                list == Decoded.route[p[1]]
            IN  /\ Len(list) = Len(strings)
                /\ \A k \in 1..Len(strings) : list[k] = strings[k].text

C13_Witness ==
    /\ Returned
    /\ xml_data = XmlBlob(DocAReplace("route-by",
                             StringList("route-by", <<Txt_CDG, <<>>, Txt_JFK>>)))
    /\ Decoded.route.by = <<Txt_CDG, Txt_JFK>>
    /\ Decoded.route.to = <<Txt_CDG>>

\* C14: when one numeric leaf holds text that is not a number, parse still
\* returns a record, the field decoded from that leaf is zero and every
\* other field has the value it has when the leaf is valid.
C14_BadNumberIsZero ==
    \A c \in AllBadLeafCases :
        (Returned /\ xml_data = XmlBlob(c.doc))
            => Outcome = Return(Some(c.expect))

C14_Witness ==
    /\ Returned
    /\ xml_data = XmlBlob(DocAItemLeaf("rate-charge", Num_1_5_comma))
    /\ Decoded.items[1].rate_charge = 0
    /\ Decoded.items[1].total = 150 * Scale
    /\ Decoded # BuildDetails(DocA)
    /\ [Decoded EXCEPT !.items[1].rate_charge = 12 * Scale + Scale \div 2]
          = BuildDetails(DocA)

\* the untrimmed text of the first child of elem tagged tag
RawChildText(elem, tag) ==
    LET cs == {i \in 1..Len(elem.kids) : elem.kids[i].tag = tag}
    IN  elem.kids[CHOOSE i \in cs : \A j \in cs : i <= j].text

\* the weight scale code under the stated rule
ScaleAsStated(elem, tag) ==
    IF Missing(elem, tag) \/ RawChildText(elem, tag) = <<>> THEN Txt_K
    ELSE Strip(RawChildText(elem, tag))

\* the weight scale code under the amended rule
ScaleOrK(elem, tag) ==
    IF Missing(elem, tag) \/ Strip(RawChildText(elem, tag)) = <<>> THEN Txt_K
    ELSE Strip(RawChildText(elem, tag))

\* C20 as stated: the weight scale code of a line item and of the document
\* is "K" when the tag is missing or has empty text, and the tag's trimmed
\* text otherwise.
C20_AsStated ==
    WellFormedReturned =>
        LET items == Entries(SourceRoot, "items", "awb-item")
        IN  /\ Decoded.weight_scale = ScaleAsStated(SourceRoot, "item-weight-scale")
            /\ \A k \in 1..Len(items) :
                  Decoded.items[k].scale = ScaleAsStated(items[k], "scale")

\* C20 (amended): the weight scale code of a line item and of the document
\* is "K" when the tag is missing or its text is empty once trimmed (no
\* text, or white space only), and the tag's trimmed text otherwise.
C20_ScaleDefaultsToK ==
    WellFormedReturned =>
        LET items == Entries(SourceRoot, "items", "awb-item")
        IN  /\ Decoded.weight_scale = ScaleOrK(SourceRoot, "item-weight-scale")
            /\ \A k \in 1..Len(items) :
                  Decoded.items[k].scale = ScaleOrK(items[k], "scale")

C20_Witness ==
    /\ Returned
    /\ xml_data = XmlBlob(DocAItemLeaf("scale", Txt_Blank))
    /\ Decoded.items[1].scale = Txt_K
    /\ Decoded.weight_scale = Txt_L

---------------------------------------------------------------------------
(* GET /documents/{document_id}/details: get_document_details              *)
(* (app/api/documents.py). The documents table is the list `documents`, a  *)
(* document's id being its position in it.                                  *)

Txt_DocumentWithID == <<"D", "o", "c", "u", "m", "e", "n", "t", " ", "w", "i", "t", "h", " ", "I", "D", " ">>
Txt_NotFound == <<" ", "n", "o", "t", " ", "f", "o", "u", "n", "d">>
Txt_CouldNotBeParsed == <<"D", "o", "c", "u", "m", "e", "n", "t", " ", "d", "a", "t", "a", " ", "c", "o", "u", "l", "d", " ", "n", "o", "t", " ", "b", "e", " ", "p", "a", "r", "s", "e", "d", " ", "o", "r", " ", "i", "s", " ", "e", "m", "p", "t", "y">>
Txt_InternalServerError == <<"I", "n", "t", "e", "r", "n", "a", "l", " ", "S", "e", "r", "v", "e", "r", " ", "E", "r", "r", "o", "r">>

\* DocumentService.get_document_by_id
get_document_by_id(db, id) ==
    IF id \in 1..Len(db) THEN Some(db[id]) ELSE None

\* what the client receives: an error answer or a JSON body
HTTPException(status_code, detail) ==
    [status_code |-> status_code, detail |-> detail, body |-> None]
JsonResponse(body) ==
    [status_code |-> 200, detail |-> <<>>, body |-> Some(body)]

\* get_document_details; an exception leaving AWBParser.parse would be
\* answered by the framework with 500
get_document_details(db, id) ==
    LET document == get_document_by_id(db, id)
    IN  IF IsNone(document)
        THEN HTTPException(404, Txt_DocumentWithID \o IntToText(id) \o Txt_NotFound)
        ELSE LET call == parse(Get(document).document_data)
             IN  IF call.raised # ""
                 THEN HTTPException(500, Txt_InternalServerError)
                 ELSE IF IsNone(call.value)
                 THEN HTTPException(404, Txt_CouldNotBeParsed)
                 ELSE JsonResponse(
                          [document_id |-> id,
                           document_number |-> Get(document).document_number,
                           awb_details |-> to_dict(call.value)])

\* one request
DetailsCall ==
    /\ pc = "details"
    /\ \E id \in 1..(Len(documents) + 1) :
          /\ document_id' = id
          /\ response' = Some(get_document_details(documents, id))
          /\ parse_calls' = IF id <= Len(documents)
                            THEN [parse_calls EXCEPT ![id] = @ + 1]
                            ELSE parse_calls
    /\ pc' = "answered"
    /\ UNCHANGED <<xml_data, parse_result, documents, excel_vars, pdf_totals,
                   pdf_rows, extra_vars>>

---------------------------------------------------------------------------
(* Specification SpecCallers: one run of any of the three callers of       *)
(* AWBParser.parse over the same documents.                                *)

InitCallers ==
    /\ ParserIdle
    /\ documents \in UNION {DocLists(n) : n \in 0..MaxCallerDocs}
    /\ pc \in {"summary", "pdf_totals", "details"}
    /\ idx = 1
    /\ parsed_docs = <<>>
    /\ totals = NoTotals
    /\ totals_row = None
    /\ summary_rows = <<>>
    /\ item_rows = <<>>
    /\ charge_rows = <<>>
    /\ routing_rows = <<>>
    /\ stats = None
    /\ pdf_totals = None
    /\ pdf_rows = <<>>
    /\ parse_calls = NoCalls
    /\ EndpointIdle

NextCallers ==
    \/ Next
    \/ NextPdf
    \/ DetailsCall

SpecCallers == InitCallers /\ [][NextCallers]_vars

---------------------------------------------------------------------------
(* Properties of the callers of AWBParser.parse.                           *)

\* the five sheets are written, with a row for every document where the
\* sheet has one row per document
AllSectionsProduced ==
    /\ pc = "done"
    /\ Len(parsed_docs) = Len(documents)
    /\ Len(summary_rows) = Len(documents)
    /\ totals_row # None
    /\ Len(routing_rows) = Len(documents)
    /\ stats # None

\* the steps the pass has still to take: one per document not yet folded,
\* the TOTAUX row and the four later sheets
Remaining ==
    (Len(documents) - Len(parsed_docs))
        + (CASE pc = "summary" -> 5
             [] pc = "items" -> 4
             [] pc = "charges" -> 3
             [] pc = "routing" -> 2
             [] pc = "stats" -> 1
             [] OTHER -> 0)

\* C16: the aggregation pass always runs to completion: whatever documents
\* have an absent or undecodable blob, no exception leaves the pass, every
\* step brings it closer to its end (so every document is processed), it
\* stops only at its end and there all five sections are produced.
C16_RunsToCompletion ==
    /\ [](pc # "raised")
    /\ []((Remaining = 0) <=> (pc = "done"))
    /\ [](pc = "done" => AllSectionsProduced)
    /\ [][Remaining' < Remaining /\ Remaining' >= 0]_vars

C16_Witness ==
    /\ AllSectionsProduced
    /\ Len(documents) = 3
    /\ documents[1].document_data = BadUtf8Blob
    /\ documents[2].document_data = TruncatedBlob
    /\ documents[3].document_data = XmlBlob(DocA)
    /\ summary_rows[3].pieces = 2
    /\ IsNone(parsed_docs[1].awb_details)
    /\ IsNone(parsed_docs[2].awb_details)

\* docs with the blob of every document that cannot be decoded replaced by
\* None
WithAbsent(docs) ==
    [i \in 1..Len(docs) |->
       IF Decodable(docs[i]) THEN docs[i]
       ELSE Doc(docs[i].document_number, NoBlob)]

\* the running totals after folding the decode results of docs
RECURSIVE FoldTotals(_)
FoldTotals(docs) ==
    IF docs = <<>> THEN NoTotals
    ELSE LET awb_details == ParseDoc(docs[Len(docs)]).value
             t == FoldTotals(SubSeq(docs, 1, Len(docs) - 1))
         IN  IF ~IsNone(awb_details)
             THEN AddTotals(t, SummaryFacts(awb_details)) ELSE t

\* C17: a caller cannot tell a malformed blob from an absent one: every
\* section of the detailed Excel and PDF reports is what it is when each
\* undecodable blob is replaced by None, and so is the answer of the
\* document-details endpoint, a 404 in both cases.
C17_MalformedLikeAbsent ==
    LET twin == WithAbsent(documents)
        decoded == [i \in 1..Len(twin) |-> ParseDoc(twin[i]).value]
    IN  /\ pc = "done" =>
              /\ summary_rows =
                    [i \in 1..Len(twin) |->
                       SummaryRow(twin[i], SummaryFacts(decoded[i]))]
              /\ totals_row = Some(FoldTotals(twin))
              /\ item_rows =
                    Flatten([i \in 1..Len(twin) |-> LineItemRows(twin[i], decoded[i])])
              /\ charge_rows =
                    Flatten([i \in 1..Len(twin) |-> ChargeRows(twin[i], decoded[i])])
              /\ routing_rows =
                    [i \in 1..Len(twin) |-> RoutingRow(twin[i], decoded[i])]
              /\ Get(stats) \in stats_data(Len(twin), FoldTotals(twin))
        /\ pc = "pdf_done" =>
              /\ pdf_totals = Some(PdfTotals(twin))
              /\ pdf_rows = PdfDocRows(twin) \o PdfOverflowRows(Len(twin))
        /\ pc = "answered" =>
              /\ response = Some(get_document_details(twin, document_id))
              /\ (document_id <= Len(documents)
                    /\ ~Decodable(documents[document_id]))
                    => /\ Get(response).status_code = 404
                       /\ Get(response).detail = Txt_CouldNotBeParsed

C17_Witness ==
    /\ pc = "answered"
    /\ Len(documents) = 2
    /\ documents[1].document_data = BadUtf8Blob
    /\ documents[2].document_data = NoBlob
    /\ document_id = 1
    /\ Get(response) = get_document_details(documents, 2)
    /\ Get(response).status_code = 404

\* C18: for a decoded document the summary row's chargeable weight is the
\* sum of the chargeable weights of its line items, its other-charges
\* total the sum of the amounts of its other charges and its prepaid total
\* the prepaid element of the grand-total pair of the charges summary.
C18_RowFromOwnDocument ==
    \A i \in 1..Len(summary_rows) :
        Decodable(documents[i]) =>
            LET root == documents[i].document_data.root
                items == Entries(root, "items", "awb-item")
                charges == Entries(root, "other-charges", "awb-other-charges")
                grand == Entries(root, "weight-total", "string")
            IN  /\ summary_rows[i].chargeable_weight =
                      SumSeq([k \in 1..Len(items) |->
                                TryFloat(ChildText(items[k], "chargeable-weight"))])
                /\ summary_rows[i].other_charges_sum =
                      SumSeq([k \in 1..Len(charges) |->
                                TryFloat(ChildText(charges[k], "amount"))])
                /\ summary_rows[i].prepaid_total =
                      IF Len(grand) >= 1 THEN TryFloat(grand[1].text) ELSE 0

C18_Witness ==
    /\ pc = "done"
    /\ Len(documents) = 2
    /\ documents[1].document_data = XmlBlob(DocB)
    /\ documents[2].document_data = XmlBlob(DocA)
    /\ summary_rows[1].chargeable_weight = 5 * Scale + 3 * (Scale \div 4)
    /\ summary_rows[1].other_charges_sum = 19 * Scale + Scale \div 2
    /\ summary_rows[1].prepaid_total = 12 * Scale + Scale \div 2
    /\ summary_rows[2].prepaid_total = 180 * Scale

\* C19 as stated: during one detailed-report build the blob of each input
\* document is decoded at most once.
C19_DecodedAtMostOnce ==
    \A i \in 1..Len(parse_calls) : parse_calls[i] <= 1

---------------------------------------------------------------------------
(* Properties of AWBParser.to_dict (specification SpecParse).              *)

Converted == pc = "converted"
AsDict == Get(as_dict)

\* the field names of AWBItem and OtherCharge
ItemFieldNames ==
    {"pieces", "gross_weight", "chargeable_weight", "rate_charge", "total",
     "nature", "scale", "rate_class", "item_number", "dimensions"}
ChargeFieldNames == {"code", "amount", "due", "three_letter_code"}

\* the fields of AWBDetails that to_dict copies under the same key
SameKeyFields ==
    {"awb_type", "airline_prefix", "serial_number", "hawb",
     "weight_payment_type", "other_charges_payment_type", "calculations",
     "currency", "insurance", "value_carrier", "value_customs",
     "reference_number", "handling_information", "accounting_information",
     "sci", "notes"}

\* C21: to_dict carries every decoded value unchanged: the route lists, the
\* line items and the other charges have the same length, order and field
\* values as in the record, the twelve charges-summary fields and every
\* other field keep their values; to_dict of an absent record is the empty
\* dictionary.
C21_ToDictCarriesValues ==
    Converted =>
        IF IsNone(Outcome.value) THEN AsDict = <<>>
        ELSE LET d == Decoded
                 j == AsDict
             IN  /\ j.routing.to = d.route.to
                 /\ j.routing.by = d.route.by
                 /\ j.routing.flights = d.route.flights
                 /\ Len(j.rate_description.items) = Len(d.items)
                 /\ \A k \in 1..Len(d.items) :
                       /\ DOMAIN j.rate_description.items[k] = ItemFieldNames
                       /\ \A f \in ItemFieldNames :
                             j.rate_description.items[k][f] = d.items[k][f]
                 /\ Len(j.other_charges) = Len(d.other_charges)
                 /\ \A k \in 1..Len(d.other_charges) :
                       /\ DOMAIN j.other_charges[k] = ChargeFieldNames
                       /\ \A f \in ChargeFieldNames :
                             j.other_charges[k][f] = d.other_charges[k][f]
                 /\ \A p \in SummaryFieldTags :
                       j.charges_summary[p[1]] = d.charges_summary[p[1]]
                 /\ \A f \in SameKeyFields : j[f] = d[f]
                 /\ j.shipper.details = d.shipper_details
                 /\ j.shipper.account = d.shipper_account
                 /\ j.consignee.details = d.consignee_details
                 /\ j.consignee.account = d.consignee_account
                 /\ j.agent.details = d.agent_details
                 /\ j.agent.iata_code = d.agent_iata_code
                 /\ j.issued_by = d.issued_by_details
                 /\ j.routing.departure = d.airport_departure
                 /\ j.routing.departure_code = d.airport_departure_code
                 /\ j.routing.destination = d.airport_destination
                 /\ j.rate_description.total_pieces = d.total_pieces
                 /\ j.rate_description.total_weight = d.total_weight
                 /\ j.rate_description.weight_scale = d.weight_scale
                 /\ j.rate_description.items_total = d.items_total
                 /\ j.signatures.shipper = d.shipper_signature
                 /\ j.signatures.carrier = d.carrier_signature
                 /\ j.signatures.date = d.carrier_date
                 /\ j.signatures.place = d.carrier_place

C21_Witness ==
    /\ Converted
    /\ xml_data = XmlBlob(DocB)
    /\ AsDict.routing.to = <<Txt_CDG, Txt_JFK>>
    /\ Len(AsDict.rate_description.items) = 2
    /\ AsDict.rate_description.items[2].nature = Txt_Books
    /\ AsDict.other_charges[2].code = Txt_ZZ
    /\ AsDict.charges_summary.total_prepaid = 12 * Scale + Scale \div 2
    /\ AsDict.currency = Txt_EUR

---------------------------------------------------------------------------
(* Further properties of the prepaid/collect pairs (specification          *)
(* SpecParse).                                                             *)

\* float() accepts the text
IsNumeric(text) == IsFloatText(Strip(text))

\* elem without its `string` children after the second
FirstTwoStrings(elem) ==
    [elem EXCEPT !.kids =
        SelectSeq([i \in 1..Len(elem.kids) |->
                     IF elem.kids[i].tag = "string"
                        /\ Cardinality({j \in 1..i : elem.kids[j].tag = "string"}) > 2
                     THEN Leaf("", <<>>) ELSE elem.kids[i]],
                  LAMBDA k : k.tag # "")]

\* root with every pair container cut down to its first two values
TrimPairs(root) ==
    [root EXCEPT !.kids = [i \in 1..Len(root.kids) |->
                             IF root.kids[i].tag \in PairTags
                             THEN FirstTwoStrings(root.kids[i])
                             ELSE root.kids[i]]]

\* C26: prepaid/collect decoding never shifts values: when the first
\* `string` child of a pair container is empty or not a number and the
\* second is a number, prepaid is 0.0 and collect is the second value;
\* children after the second change neither value (the summary is the one
\* decoded from the document without them).
C26_NoShift ==
    WellFormedReturned =>
        /\ \A p \in PairFields :
              LET strings == Entries(SourceRoot, p[1], "string")
              IN  (Len(strings) >= 2 /\ ~IsNumeric(strings[1].text)
                     /\ IsNumeric(strings[2].text))
                    => /\ Decoded.charges_summary[p[2]] = 0
                       /\ Decoded.charges_summary[p[3]] =
                             FloatOf(Strip(strings[2].text))
        /\ Decoded.charges_summary = _parse_charges_summary(TrimPairs(SourceRoot))

C26_Witness ==
    /\ Returned
    /\ xml_data = XmlBlob(DocAReplace("tax", StringList("tax", <<<<>>, Num_7>>)))
    /\ Decoded.charges_summary.tax_prepaid = 0
    /\ Decoded.charges_summary.tax_collect = 7 * Scale


---------------------------------------------------------------------------
(* Properties of the totals of the detailed PDF report (specification      *)
(* SpecPdf).                                                               *)

PdfDone == pc = "pdf_done"

\* what the documents at the positions ps add to a total, read from the
\* source trees; amount(root) is the document's share
PiecesOver(ps) ==
    SumSeq([i \in 1..Len(documents) |->
              IF i \in ps /\ Decodable(documents[i])
              THEN _get_int(documents[i].document_data.root, "item-pieces")
              ELSE 0])

WeightOver(ps) ==
    SumSeq([i \in 1..Len(documents) |->
              IF i \in ps /\ Decodable(documents[i])
              THEN _get_float(documents[i].document_data.root, "item-weight")
              ELSE 0])

PrepaidOver(ps) ==
    SumSeq([i \in 1..Len(documents) |->
              IF i \in ps /\ Decodable(documents[i])
              THEN _parse_charges_summary(
                       documents[i].document_data.root).total_prepaid
              ELSE 0])

\* C24: the KPI totals and the footer of the detailed PDF report (document
\* count, total pieces, total weight, total prepaid) cover every input
\* document, those after the 50th included, whatever the number of table
\* rows; the footer shows the same totals, the weight to one decimal place
\* and the amount to two.
C24_TotalsOverAllDocuments ==
    PdfDone =>
        LET all == 1..Len(documents)
            t == Get(pdf_totals)
            f == Get(pdf_footer)
        IN  /\ Len(pdf_rows) <= PdfRowCap + 1
            /\ t.document_count = Len(documents)
            /\ t.total_pieces = PiecesOver(all)
            /\ t.total_weight = WeightOver(all)
            /\ t.total_prepaid = PrepaidOver(all)
            /\ f.document_count = Len(documents)
            /\ f.total_pieces = PiecesOver(all)
            /\ Nearest(f.total_weight, WeightOver(all), Scale \div 10)
            /\ Nearest(f.total_prepaid, PrepaidOver(all), Scale \div 100)

C24_Witness ==
    /\ PdfDone
    /\ Len(documents) = PdfRowCap + 2
    /\ Len(pdf_rows) = PdfRowCap + 1
    /\ Decodable(documents[PdfRowCap + 1])
    /\ Get(pdf_footer).total_pieces > PiecesOver(1..PdfRowCap)
    /\ Get(pdf_totals).total_weight > WeightOver(1..PdfRowCap)
    /\ Get(pdf_totals).total_prepaid > PrepaidOver(1..PdfRowCap)


---------------------------------------------------------------------------
(* The Excel builder over documents that differ in their line items        *)
(* (specification SpecItems).                                              *)

MaxItemDocs == 2

DocLevelTags == {"item-pieces", "item-weight", "item-total"}

\* a line item whose children carry the names of the document-level tags
ItemDecoy ==
    Node("awb-item",
         <<Leaf("item-pieces", Num_7), Leaf("item-weight", Num_7),
           Leaf("item-total", Num_7), Leaf("pieces", Num_7),
           Leaf("gross-weight", Num_7), Leaf("chargeable-weight", Num_7),
           Leaf("total", Num_7)>>)

ItemVariants == {<<>>, <<Item1, Item2>>, <<ItemDecoy>>}

\* root without its `items` container
DropItems(root) ==
    [root EXCEPT !.kids = SelectSeq(@, LAMBDA k : k.tag # "items")]

\* root with the line items replaced by entries
SetItems(root, entries) ==
    [root EXCEPT !.kids = SelectSeq(@, LAMBDA k : k.tag # "items")
                            \o <<Node("items", entries)>>]

ItemBases == {DocA, DocAWith(AllTags \ DocLevelTags)}

ItemPool ==
    {XmlBlob(SetItems(b, v)) : b \in ItemBases, v \in ItemVariants}
        \cup {XmlBlob(DropItems(b)) : b \in ItemBases}

ItemDocLists(n) ==
    {[i \in 1..n |-> Doc(i, f[i])] : f \in [1..n -> ItemPool]}

InitItems ==
    /\ ParserIdle
    /\ documents \in UNION {ItemDocLists(n) : n \in 0..MaxItemDocs}
    /\ pc = "summary"
    /\ idx = 1
    /\ parsed_docs = <<>>
    /\ totals = NoTotals
    /\ totals_row = None
    /\ summary_rows = <<>>
    /\ item_rows = <<>>
    /\ charge_rows = <<>>
    /\ routing_rows = <<>>
    /\ stats = None
    /\ pdf_totals = None
    /\ pdf_rows = <<>>
    /\ parse_calls = NoCalls
    /\ EndpointIdle

SpecItems == InitItems /\ [][Next]_vars

\* the documents with the line items of every one replaced by entries
AllWithItems(entries) ==
    [i \in 1..Len(documents) |->
       Doc(documents[i].document_number,
           XmlBlob(SetItems(documents[i].document_data.root, entries)))]

\* C25: the pieces, gross weight and items total of a summary row, and the
\* matching running totals, come from the direct children `item-pieces`,
\* `item-weight` and `item-total` of the document root and are the same
\* whatever `awb-item` entries the document holds; the row's chargeable
\* weight is the sum over those entries.
C25_DocumentLevelOnly ==
    /\ \A i \in 1..Len(summary_rows) :
          LET root == documents[i].document_data.root
              row == summary_rows[i]
          IN  /\ row.pieces = _get_int(root, "item-pieces")
              /\ row.gross_weight = _get_float(root, "item-weight")
              /\ row.items_total = _get_float(root, "item-total")
              /\ row.chargeable_weight =
                    LET items == Entries(root, "items", "awb-item")
                    IN  SumSeq([k \in 1..Len(items) |->
                                  TryFloat(ChildText(items[k], "chargeable-weight"))])
              /\ \A v \in ItemVariants :
                    LET other == SummaryFacts(parse(XmlBlob(SetItems(root, v))).value)
                    IN  /\ row.pieces = other.pieces
                        /\ row.gross_weight = other.gross_weight
                        /\ row.items_total = other.items_total
    /\ \A v \in ItemVariants :
          LET other == FoldTotals(Take(AllWithItems(v), Len(summary_rows)))
          IN  /\ totals.pieces = other.pieces
              /\ totals.gross_weight = other.gross_weight
              /\ totals.freight = other.freight

C25_Witness ==
    /\ pc = "done"
    /\ Len(documents) = 2
    /\ documents[1].document_data = XmlBlob(SetItems(DocA, <<Item1, Item2>>))
    /\ documents[2].document_data = XmlBlob(SetItems(DocA, <<ItemDecoy>>))
    /\ summary_rows[1].pieces = 2 /\ summary_rows[2].pieces = 2
    /\ summary_rows[1].gross_weight = summary_rows[2].gross_weight
    /\ summary_rows[1].items_total = 150 * Scale
    /\ summary_rows[2].items_total = 150 * Scale
    /\ summary_rows[1].chargeable_weight = 5 * Scale + 3 * (Scale \div 4)
    /\ summary_rows[2].chargeable_weight = 7 * Scale
    /\ Get(totals_row).pieces = 4


---------------------------------------------------------------------------
(* Concurrent callers of AWBParser.parse and the objects it builds         *)
(* (specification SpecHeap).  A returned record holds references to its    *)
(* mutable parts: a RouteInfo and its three lists, the item list, the      *)
(* other-charge list and a ChargesSummary; heap maps addresses to them.    *)
(* A call takes two steps, so calls of different callers interleave.       *)

MaxCalls == 2

MaxMutations == 1

\* a full document, a document without children and an undecodable blob
HeapPool == {XmlBlob(DocA), XmlBlob(Node("awb", <<>>)), TruncatedBlob}

\* what a caller appends to a list of a returned record
Marker == <<"!">>

MutableParts ==
    {"route", "to", "by", "flights", "items", "other_charges", "charges_summary"}

\* faulty variant of Alloc: the objects are created once and shared by
\* every call
Alloc_ClassLevel(h, k) == k

\* the address of the k-th object a call creates when the heap is h
Alloc(h, k) == Len(h) + k

\* the objects created by AWBDetails(), RouteInfo(), `items = []`,
\* `charges = []` and ChargesSummary(); those of AWBDetails.__post_init__
\* that parse replaces at once are left out
NewObjects(h) ==
    <<[to |-> Alloc(h, 2), by |-> Alloc(h, 3), flights |-> Alloc(h, 4)],
      <<>>, <<>>, <<>>, <<>>, <<>>, DefaultDetails.charges_summary>>

NewRef(h) ==
    [route |-> Alloc(h, 1), items |-> Alloc(h, 5),
     other_charges |-> Alloc(h, 6), charges_summary |-> Alloc(h, 7)]

\* the variables the callers of this section leave alone
base_vars == <<xml_data, parse_result, pc, report_vars, as_dict, pdf_footer>>

InitHeap ==
    /\ ParserIdle
    /\ pc = "callers"
    /\ ReportIdle

\* parse up to the creation of the record (lines 137-144, 169, 253, 275, 291)
ParseBegin ==
    /\ Len(calls) < MaxCalls
    /\ \E blob \in HeapPool :
          LET out == parse(blob)
          IN  IF out.raised = "" /\ ~IsNone(out.value)
              THEN /\ heap' = heap \o NewObjects(heap)
                   /\ calls' = Append(calls, [xml_data |-> blob,
                                              phase |-> "running",
                                              ref |-> Some(NewRef(heap)),
                                              touched |-> FALSE])
                   /\ UNCHANGED finished
              ELSE /\ calls' = Append(calls, [xml_data |-> blob,
                                              phase |-> "returned",
                                              ref |-> None,
                                              touched |-> FALSE])
                   /\ finished' = Append(finished, Len(calls) + 1)
                   /\ UNCHANGED heap
    /\ UNCHANGED <<mutations, base_vars, auth_vars>>

\* parse from there to its return: the lists are filled and the summary
\* fields set (lines 170-195, 254-270, 276-286, 313-320)
ParseFill ==
    /\ \E i \in 1..Len(calls) :
          /\ calls[i].phase = "running"
          /\ LET r == Get(calls[i].ref)
                 route == heap[r.route]
                 d == Get(parse(calls[i].xml_data).value)
             IN  heap' = [heap EXCEPT ![route.to] = @ \o d.route.to,
                                      ![route.by] = @ \o d.route.by,
                                      ![route.flights] = @ \o d.route.flights,
                                      ![r.items] = @ \o d.items,
                                      ![r.other_charges] = @ \o d.other_charges,
                                      ![r.charges_summary] = d.charges_summary]
          /\ calls' = [calls EXCEPT ![i].phase = "returned"]
          /\ finished' = Append(finished, i)
    /\ UNCHANGED <<mutations, base_vars, auth_vars>>

\* a caller changes one mutable part of a record it was given: it appends
\* to a list, replaces route.to by a list of its own or raises a summary
\* field
Mutate ==
    /\ mutations < MaxMutations
    /\ \E i \in 1..Len(calls), part \in MutableParts :
          /\ calls[i].phase = "returned"
          /\ ~IsNone(calls[i].ref)
          /\ LET r == Get(calls[i].ref)
                 route == heap[r.route]
             IN  heap' =
                    CASE part = "route" ->
                           Append([heap EXCEPT ![r.route].to = Len(heap) + 1],
                                  <<Marker>>)
                      [] part \in {"to", "by", "flights"} ->
                           [heap EXCEPT ![route[part]] = Append(@, Marker)]
                      [] part \in {"items", "other_charges"} ->
                           [heap EXCEPT ![r[part]] = Append(@, Marker)]
                      [] part = "charges_summary" ->
                           [heap EXCEPT ![r.charges_summary].total_prepaid =
                                           @ + Scale]
          /\ calls' = [calls EXCEPT ![i].touched = TRUE]
    /\ mutations' = mutations + 1
    /\ UNCHANGED <<finished, base_vars, auth_vars>>

NextHeap ==
    \/ ParseBegin
    \/ ParseFill
    \/ Mutate

SpecHeap == InitHeap /\ [][NextHeap]_vars

---------------------------------------------------------------------------
(* Properties of the records handed to concurrent callers (specification   *)
(* SpecHeap).                                                              *)

HasRecord(c) == c.phase = "returned" /\ ~IsNone(c.ref)

\* the addresses of the mutable parts of the record of call c
Reach(c) ==
    LET r == Get(c.ref)
        route == heap[r.route]
    IN  {r.route, r.items, r.other_charges, r.charges_summary,
         route.to, route.by, route.flights}

\* the mutable parts of the record of call c, as a reader finds them
View(c) ==
    LET r == Get(c.ref)
        route == heap[r.route]
    IN  [route |-> [to |-> heap[route.to], by |-> heap[route.by],
                    flights |-> heap[route.flights]],
         items |-> heap[r.items],
         other_charges |-> heap[r.other_charges],
         charges_summary |-> heap[r.charges_summary]]

\* the same parts of the record decoded from blob
Decode(blob) ==
    LET d == Get(parse(blob).value)
    IN  [route |-> d.route, items |-> d.items,
         other_charges |-> d.other_charges,
         charges_summary |-> d.charges_summary]

\* C22: the records returned by different calls of parse share no mutable
\* part (RouteInfo, its three lists, item list, other-charge list,
\* ChargesSummary), so a change made to one returned record leaves every
\* other returned record, and the result of every later call, as decoded.
C22_FreshRecords ==
    /\ \A i, j \in 1..Len(calls) :
          (i # j /\ ~IsNone(calls[i].ref) /\ ~IsNone(calls[j].ref))
             => Reach(calls[i]) \cap Reach(calls[j]) = {}
    /\ \A j \in 1..Len(calls) :
          (HasRecord(calls[j]) /\ ~calls[j].touched)
             => View(calls[j]) = Decode(calls[j].xml_data)

C22_Witness ==
    /\ mutations = 1
    /\ Len(calls) = 2
    /\ calls[1].xml_data = XmlBlob(DocA) /\ calls[2].xml_data = XmlBlob(DocA)
    /\ HasRecord(calls[1]) /\ HasRecord(calls[2])
    /\ calls[1].touched
    /\ View(calls[1]).items = Append(Decode(XmlBlob(DocA)).items, Marker)
    /\ View(calls[2]) = Decode(XmlBlob(DocA))

\* the record of call c, if any
Details(c) ==
    IF IsNone(c.ref) THEN None
    ELSE LET d == Get(parse(c.xml_data).value)
             v == View(c)
         IN  Some([d EXCEPT !.route = v.route, !.items = v.items,
                            !.other_charges = v.other_charges,
                            !.charges_summary = v.charges_summary])

\* the results of the calls, in the order of their documents
Joined == [i \in 1..Len(calls) |-> Details(calls[i])]

CallDocs == [i \in 1..Len(calls) |-> Doc(i, calls[i].xml_data)]

\* the running totals over a sequence of decoded records
RECURSIVE JoinTotals(_)
JoinTotals(ds) ==
    IF ds = <<>> THEN NoTotals
    ELSE LET t == JoinTotals(SubSeq(ds, 1, Len(ds) - 1))
             awb_details == ds[Len(ds)]
         IN  IF ~IsNone(awb_details)
             THEN AddTotals(t, SummaryFacts(awb_details)) ELSE t

\* C23: decode calls on different documents are independent: whatever the
\* interleaving and the order in which they return, the results joined in
\* document order are the records of a sequential decode in input order,
\* and so are the summary rows and the totals built from them.
C23_OrderIndependent ==
    (mutations = 0 /\ Len(finished) = Len(calls)) =>
        /\ Joined = [i \in 1..Len(calls) |-> ParseDoc(CallDocs[i]).value]
        /\ [i \in 1..Len(calls) |-> SummaryRow(CallDocs[i], SummaryFacts(Joined[i]))]
              = [i \in 1..Len(calls) |->
                   SummaryRow(CallDocs[i],
                              SummaryFacts(ParseDoc(CallDocs[i]).value))]
        /\ JoinTotals(Joined) = FoldTotals(CallDocs)

C23_Witness ==
    /\ mutations = 0
    /\ Len(calls) = 2
    /\ finished = <<2, 1>>
    /\ calls[1].xml_data = XmlBlob(DocA)
    /\ calls[2].xml_data = XmlBlob(Node("awb", <<>>))
    /\ Get(Joined[1]).items = _parse_items(DocA)
    /\ Get(Joined[1]).route.to = <<Txt_CDG>>
    /\ Get(Joined[2]).items = <<>>
    /\ Get(Joined[2]).route.to = <<>>
    /\ JoinTotals(Joined).pieces = 2


---------------------------------------------------------------------------
(* Users, access tokens and the audit trail: core/security.py,             *)
(* services/user_service.py, and the endpoints of api/auth.py and          *)
(* api/exports.py that use them (specification SpecAuth).  Names, roles    *)
(* and passwords are strings; times are ticks, 0 standing for NULL.        *)

\* the audit table is followed up to MaxLog entries while users are
\* managed and up to MaxAuditLog entries while reports are exported, the
\* clock up to MaxTime, the autoincrement key of the users up to MaxUserId
MaxLog == 1

MaxAuditLog == 2

MaxUserId == 2

MaxTime == 3

\* ACCESS_TOKEN_EXPIRE_MINUTES, in ticks
TokenLife == 1

Roles == {"admin", "staff", "viewer"}

Usernames == {"admin", "bob"}

Passwords == {"admin123!", "s3cret-pw"}

\* the password given to the users an administrator creates
NewPassword == "s3cret-pw"

\* numbers of documents an export fetches
RecordCounts == {0, 2}

Txt_InvalidCredentials == <<"I", "n", "v", "a", "l", "i", "d", " ", "a", "u", "t", "h", "e", "n", "t", "i", "c", "a", "t", "i", "o", "n", " ", "c", "r", "e", "d", "e", "n", "t", "i", "a", "l", "s">>
Txt_InsufficientPermissions == <<"I", "n", "s", "u", "f", "f", "i", "c", "i", "e", "n", "t", " ", "p", "e", "r", "m", "i", "s", "s", "i", "o", "n", "s">>
Txt_IncorrectLogin == <<"I", "n", "c", "o", "r", "r", "e", "c", "t", " ", "u", "s", "e", "r", "n", "a", "m", "e", " ", "o", "r", " ", "p", "a", "s", "s", "w", "o", "r", "d">>
Txt_DetailedExcelExport == <<"D", "e", "t", "a", "i", "l", "e", "d", " ", "E", "x", "c", "e", "l", " ", "e", "x", "p", "o", "r", "t", ":", " ">>
Txt_Records == <<" ", "r", "e", "c", "o", "r", "d", "s">>

\* bcrypt.hashpw and bcrypt.checkpw; the salt is left out
get_password_hash(password) == <<"bcrypt", password>>

verify_password(plain_password, hashed_password) ==
    hashed_password = <<"bcrypt", plain_password>>

\* create_access_token: the claims, the expiry and the signature made with
\* SECRET_KEY
create_access_token(data, expires_delta, utcnow) ==
    [payload |-> data @@ ("exp" :> (utcnow + expires_delta)), signed |-> TRUE]

\* decode_token: jwt.decode raises a JWTError for a bad signature and for
\* a token past its expiry
decode_token(token, utcnow) ==
    IF token.signed
       /\ ("exp" \in DOMAIN token.payload => token.payload["exp"] >= utcnow)
    THEN Some(token.payload) ELSE None

require_admin == {"admin"}
require_staff == {"admin", "staff"}
require_viewer == {"admin", "staff", "viewer"}

Checkers == {require_admin, require_staff, require_viewer}

\* faulty variant of RoleChecker: the role is read from the stored user
RoleChecker_StoredRole(allowed_roles, token, utcnow) ==
    LET payload == decode_token(token, utcnow)
    IN  IF IsNone(payload) \/ DOMAIN Get(payload) = {}
        THEN HTTPException(401, Txt_InvalidCredentials)
        ELSE LET rows == SelectSeq(users, LAMBDA u :
                            "user_id" \in DOMAIN Get(payload)
                               /\ u.id = Get(payload)["user_id"])
                 user_role == IF rows # <<>> /\ rows[1].is_active
                              THEN rows[1].role ELSE ""
             IN  IF user_role \notin allowed_roles
                 THEN HTTPException(403, Txt_InsufficientPermissions)
                 ELSE JsonResponse(Get(payload))

\* RoleChecker.__call__
RoleChecker(allowed_roles, token, utcnow) ==
    LET payload == decode_token(token, utcnow)
    IN  IF IsNone(payload) \/ DOMAIN Get(payload) = {}
        THEN HTTPException(401, Txt_InvalidCredentials)
        ELSE LET user_role == IF "role" \in DOMAIN Get(payload)
                              THEN Get(payload)["role"] ELSE ""
             IN  IF user_role \notin allowed_roles
                 THEN HTTPException(403, Txt_InsufficientPermissions)
                 ELSE JsonResponse(Get(payload))

\* Result.scalar_one_or_none(): the only row, None when there is no row,
\* MultipleResultsFound when there are several
scalar_one_or_none(rows) ==
    IF Len(rows) = 0 THEN [raised |-> "", value |-> None]
    ELSE IF Len(rows) = 1 THEN [raised |-> "", value |-> Some(rows[1])]
    ELSE [raised |-> "MultipleResultsFound", value |-> None]

\* username and id are unique columns, so these two never raise
get_user_by_username(table, username) ==
    scalar_one_or_none(SelectSeq(table, LAMBDA u : u.username = username)).value

get_user_by_id(table, user_id) ==
    scalar_one_or_none(SelectSeq(table, LAMBDA u : u.id = user_id)).value

\* the table after the commit of a changed row
Commit(table, row) ==
    [i \in 1..Len(table) |-> IF table[i].id = row.id THEN row ELSE table[i]]

\* the next value of the autoincrement key
NextId(table) ==
    IF table = <<>> THEN 1
    ELSE 1 + (CHOOSE m \in {table[i].id : i \in 1..Len(table)} :
                 \A i \in 1..Len(table) : table[i].id <= m)

\* faulty variant of authenticate_user: last_login is stamped as soon as
\* the user is found
authenticate_user_StampFirst(table, username, password, utcnow) ==
    LET user == get_user_by_username(table, username)
        unchanged == [value |-> None, users |-> table]
    IN  IF IsNone(user) THEN unchanged
        ELSE LET updated == [Get(user) EXCEPT !.last_login = utcnow]
             IN  IF ~Get(user).is_active
                    \/ ~verify_password(password, Get(user).hashed_password)
                 THEN [value |-> None, users |-> Commit(table, updated)]
                 ELSE [value |-> Some(updated), users |-> Commit(table, updated)]

\* UserService.authenticate_user: the user returned and the table left
authenticate_user(table, username, password, utcnow) ==
    LET user == get_user_by_username(table, username)
        unchanged == [value |-> None, users |-> table]
    IN  IF IsNone(user) THEN unchanged
        ELSE IF ~Get(user).is_active THEN unchanged
        ELSE IF ~verify_password(password, Get(user).hashed_password)
        THEN unchanged
        ELSE LET updated == [Get(user) EXCEPT !.last_login = utcnow]
             IN  [value |-> Some(updated), users |-> Commit(table, updated)]

\* UserService.create_token_for_user
create_token_for_user(user, utcnow) ==
    create_access_token([sub |-> IntToText(user.id),
                         username |-> user.username,
                         role |-> user.role,
                         user_id |-> user.id],
                        TokenLife, utcnow)

\* UserService.log_action: the audit table after the commit
log_action(log, user_id, username, action, resource_type, details) ==
    Append(log, [user_id |-> user_id, username |-> username,
                 action |-> action, resource_type |-> resource_type,
                 details |-> details])

\* UserService.create_user; the unique index on username refuses a second
\* row of that name
create_user(table, user_data) ==
    IF \E i \in 1..Len(table) : table[i].username = user_data.username
    THEN [raised |-> "IntegrityError", value |-> None, users |-> table]
    ELSE LET user == [id |-> NextId(table),
                      username |-> user_data.username,
                      hashed_password |-> get_password_hash(user_data.password),
                      role |-> user_data.role,
                      is_active |-> TRUE,
                      last_login |-> 0]
         IN  [raised |-> "", value |-> Some(user), users |-> Append(table, user)]

\* UserService.create_default_admin
create_default_admin(table) ==
    LET existing_admin ==
            scalar_one_or_none(SelectSeq(table, LAMBDA u : u.role = "admin"))
    IN  IF existing_admin.raised # ""
        THEN [raised |-> existing_admin.raised, value |-> None, users |-> table]
        ELSE IF ~IsNone(existing_admin.value)
        THEN [raised |-> "", value |-> None, users |-> table]
        ELSE create_user(table, [username |-> "admin",
                                 password |-> "admin123!",
                                 role |-> "admin"])

\* UserService.update_user with a new role, deactivate_user, delete_user
update_user(table, user_id, role) ==
    LET user == get_user_by_id(table, user_id)
    IN  IF IsNone(user) THEN table
        ELSE Commit(table, [Get(user) EXCEPT !.role = role])

deactivate_user(table, user_id) ==
    LET user == get_user_by_id(table, user_id)
    IN  IF IsNone(user) THEN table
        ELSE Commit(table, [Get(user) EXCEPT !.is_active = FALSE])

delete_user(table, user_id) ==
    SelectSeq(table, LAMBDA u : u.id # user_id)


\* POST /auth/login: the answer, the two tables and the token issued
login(table, log, username, password, utcnow) ==
    LET auth == authenticate_user(table, username, password, utcnow)
    IN  IF IsNone(auth.value)
        THEN [response |-> HTTPException(401, Txt_IncorrectLogin),
              users |-> auth.users, audit_log |-> log, token |-> None]
        ELSE LET user == Get(auth.value)
                 token == create_token_for_user(user, utcnow)
             IN  [response |-> JsonResponse([access_token |-> token,
                                             user |-> user]),
                  users |-> auth.users,
                  audit_log |-> log_action(log, user.id, user.username,
                                           "LOGIN", <<>>, <<>>),
                  token |-> Some(token)]

\* payload.get(key, default)
PayloadGet(payload, key, default) ==
    IF key \in DOMAIN payload THEN payload[key] ELSE default

\* faulty variant of export_detailed_report_excel: the audit entry is
\* written once the documents are fetched, before the report is built
export_detailed_report_excel_LogFirst(log, token, utcnow, fetched, built) ==
    LET current_user == RoleChecker(require_staff, token, utcnow)
    IN  IF current_user.status_code # 200
        THEN [response |-> current_user, audit_log |-> log]
        ELSE IF IsNone(fetched)
        THEN [response |-> HTTPException(500, Txt_InternalServerError),
              audit_log |-> log]
        ELSE LET payload == Get(current_user.body)
                 logged == log_action(log,
                              PayloadGet(payload, "user_id", 0),
                              PayloadGet(payload, "username", "unknown"),
                              "EXPORT", "detailed_report",
                              Txt_DetailedExcelExport
                                 \o IntToText(Get(fetched)) \o Txt_Records)
             IN  IF ~built
                 THEN [response |-> HTTPException(500, Txt_InternalServerError),
                       audit_log |-> logged]
                 ELSE [response |-> JsonResponse([records |-> Get(fetched)]),
                       audit_log |-> logged]

\* GET /exports/report/detailed/excel.  fetched is the number of documents
\* get_documents returned (None when the query raised), built tells
\* whether export_detailed_awb_report_excel returned its buffer; an
\* exception leaving the handler is answered with 500
export_detailed_report_excel(log, token, utcnow, fetched, built) ==
    LET current_user == RoleChecker(require_staff, token, utcnow)
    IN  IF current_user.status_code # 200
        THEN [response |-> current_user, audit_log |-> log]
        ELSE IF IsNone(fetched) \/ ~built
        THEN [response |-> HTTPException(500, Txt_InternalServerError),
              audit_log |-> log]
        ELSE LET payload == Get(current_user.body)
             IN  [response |-> JsonResponse([records |-> Get(fetched)]),
                  audit_log |->
                     log_action(log,
                                PayloadGet(payload, "user_id", 0),
                                PayloadGet(payload, "username", "unknown"),
                                "EXPORT", "detailed_report",
                                Txt_DetailedExcelExport
                                   \o IntToText(Get(fetched)) \o Txt_Records)]

\* tokens not issued by the platform: one with a bad signature, one signed
\* with the key but without a role claim
ForeignTokens ==
    {[payload |-> [sub |-> <<"1">>, username |-> "admin", role |-> "admin",
                   user_id |-> 1, exp |-> MaxTime + 1],
      signed |-> FALSE],
     [payload |-> [username |-> "svc", exp |-> MaxTime + 1], signed |-> TRUE]}

\* some issued token passes require_admin now
AdminCalling ==
    \E t \in tokens : RoleChecker(require_admin, t, now).status_code = 200

other_vars == <<base_vars, heap_vars>>

LogCap == IF pc = "auditing" THEN MaxAuditLog ELSE MaxLog

InitAuth ==
    /\ ParserIdle
    /\ pc = "serving"
    /\ ReportIdle

InitRoles ==
    /\ ParserIdle
    /\ pc = "checking"
    /\ ReportIdle

InitAudit ==
    /\ ParserIdle
    /\ pc = "auditing"
    /\ ReportIdle

\* main.lifespan: create_default_admin at start-up
Startup ==
    /\ NextId(users) <= MaxUserId
          \/ \E i \in 1..Len(users) : users[i].role = "admin"
    /\ LET out == create_default_admin(users)
       IN  /\ users' = out.users
           \* 500 stands for a start-up stopped by the exception
           /\ last' = [op |-> "startup",
                       status |-> IF out.raised # "" THEN 500
                                  ELSE IF IsNone(out.value) THEN 200
                                  ELSE 201]
    /\ UNCHANGED <<audit_log, tokens, now, other_vars>>

\* POST /auth/login
Login(username, password) ==
    LET out == login(users, audit_log, username, password, now)
    IN  /\ ~IsNone(out.token) => Len(audit_log) < LogCap
        /\ users' = out.users
        /\ audit_log' = out.audit_log
        /\ tokens' = IF IsNone(out.token) THEN tokens
                     ELSE tokens \cup {Get(out.token)}
        /\ last' = [op |-> "login", status |-> out.response.status_code]
        /\ UNCHANGED <<now, other_vars>>

LoginStep == \E username \in Usernames, password \in Passwords :
                Login(username, password)

\* a request to an endpoint that depends on a role checker
CheckRole ==
    /\ \E allowed_roles \in Checkers, token \in tokens \cup ForeignTokens :
          last' = [op |-> "check",
                   status |-> RoleChecker(allowed_roles, token, now).status_code,
                   allowed_roles |-> allowed_roles, token |-> token,
                   at |-> now]
    /\ UNCHANGED <<users, audit_log, tokens, now, other_vars>>

\* POST /auth/users by an administrator
CreateUser ==
    /\ AdminCalling
    /\ NextId(users) <= MaxUserId
    /\ \E username \in Usernames, password \in {NewPassword}, role \in Roles :
          IF ~IsNone(get_user_by_username(users, username))
          THEN /\ last' = [op |-> "create_user", status |-> 400]
               /\ UNCHANGED users
          ELSE /\ users' = create_user(users, [username |-> username,
                                               password |-> password,
                                               role |-> role]).users
               /\ last' = [op |-> "create_user", status |-> 201]
    /\ UNCHANGED <<audit_log, tokens, now, other_vars>>

\* PUT /auth/users/{user_id} (role), deactivate_user and
\* DELETE /auth/users/{user_id} by an administrator
ChangeUser ==
    /\ AdminCalling
    /\ \E i \in 1..Len(users) :
          \/ \E role \in Roles :
                /\ users' = update_user(users, users[i].id, role)
                /\ last' = [op |-> "update_user", status |-> 200]
          \/ /\ users' = deactivate_user(users, users[i].id)
             /\ last' = [op |-> "deactivate_user", status |-> 200]
          \/ /\ users' = delete_user(users, users[i].id)
             /\ last' = [op |-> "delete_user", status |-> 200]
    /\ UNCHANGED <<audit_log, tokens, now, other_vars>>

\* GET /exports/report/detailed/excel
Export(token, fetched, built) ==
    LET out == export_detailed_report_excel(audit_log, token, now, fetched, built)
    IN  /\ Len(audit_log) < LogCap
        /\ audit_log' = out.audit_log
        /\ last' = [op |-> "export", status |-> out.response.status_code]
        /\ UNCHANGED <<users, tokens, now, other_vars>>

ExportStep ==
    \E token \in tokens \cup ForeignTokens,
       fetched \in {None} \cup {Some(n) : n \in RecordCounts},
       built \in BOOLEAN :
        Export(token, fetched, built)

\* time passes
Tick ==
    /\ now < MaxTime
    /\ now' = now + 1
    /\ UNCHANGED <<users, audit_log, tokens, last, other_vars>>

\* logins and user management
NextAuth ==
    \/ Startup
    \/ LoginStep
    \/ CreateUser
    \/ ChangeUser

SpecAuth == InitAuth /\ [][NextAuth]_vars

\* logins and role-checked requests over time, the default administrator
\* being the only user
NextRoles ==
    \/ Startup
    \/ LoginStep
    \/ CheckRole
    \/ ChangeUser
    \/ Tick

SpecRoles == InitRoles /\ [][NextRoles]_vars

\* logins and exports over time, the default administrator being the only
\* user
NextAudit ==
    \/ Startup
    \/ LoginStep
    \/ ChangeUser
    \/ ExportStep
    \/ Tick

SpecAudit == InitAudit /\ [][NextAudit]_vars


---------------------------------------------------------------------------
(* Properties of the role checkers (specification SpecRoles) and of the    *)
(* audit trail (specification SpecAudit).                                  *)

\* the signature of token is good and its expiry is not before instant t
Verifies(token, t) == token.signed /\ token.payload["exp"] >= t

\* the role claim of token ("" when it has none)
RoleClaim(token) ==
    IF "role" \in DOMAIN token.payload THEN token.payload["role"] ELSE ""

Accepts(allowed_roles, token) ==
    RoleChecker(allowed_roles, token, now).status_code = 200

\* C27: a role-checked endpoint decides from the bearer token alone: 401
\* when the token fails verification, whatever its role claim; 403 when it
\* verifies and its role claim is not in the allowed set; accepted
\* otherwise, whatever has become of the stored user.  The allowed sets
\* are nested, so a token accepted by require_admin is accepted by
\* require_staff and one accepted by require_staff by require_viewer.
C27_TokenAloneDecides ==
    /\ last.op = "check" =>
          LET valid == Verifies(last.token, last.at)
              allowed == RoleClaim(last.token) \in last.allowed_roles
          IN  /\ ~valid => last.status = 401
              /\ (valid /\ ~allowed) => last.status = 403
              /\ (valid /\ allowed) => last.status = 200
    /\ require_admin \subseteq require_staff
    /\ require_staff \subseteq require_viewer
    /\ \A token \in tokens \cup ForeignTokens :
          /\ Accepts(require_admin, token) => Accepts(require_staff, token)
          /\ Accepts(require_staff, token) => Accepts(require_viewer, token)

C27_Witness ==
    /\ last.op = "check"
    /\ last.status = 200
    /\ last.allowed_roles = require_admin
    /\ last.token \in tokens
    /\ last.token.payload["role"] = "admin"
    /\ \E i \in 1..Len(users) :
          /\ users[i].id = last.token.payload["user_id"]
          /\ ~users[i].is_active
          /\ users[i].role = "viewer"

\* text is the details of an EXPORT entry for n records
IsExportDetails(text, n) ==
    LET head == Len(Txt_DetailedExcelExport)
        tail == Len(Txt_Records)
        numeral == SubSeq(text, head + 1, Len(text) - tail)
    IN  /\ Len(text) > head + tail
        /\ SubSeq(text, 1, head) = Txt_DetailedExcelExport
        /\ SubSeq(text, Len(text) - tail + 1, Len(text)) = Txt_Records
        /\ IsIntText(numeral)
        /\ IntOf(numeral) = n

\* the entry a step added to the audit table
NewEntry == audit_log'[Len(audit_log')]

\* C28: audit entries follow the action they record.  An export request
\* adds its one EXPORT entry, whose details give the number of records
\* fetched, exactly when the caller passed the role check, the documents
\* were fetched and the report was built, and adds nothing otherwise; a
\* login adds its LOGIN entry, for the user authenticated, exactly when it
\* is answered with 200; no step adds an entry in any other way.
C28_AuditFollowsAction ==
    [][/\ \A token \in tokens \cup ForeignTokens,
             fetched \in {None} \cup {Some(n) : n \in RecordCounts},
             built \in BOOLEAN :
            Export(token, fetched, built) =>
               IF Verifies(token, now) /\ RoleClaim(token) \in require_staff
                  /\ ~IsNone(fetched) /\ built
               THEN /\ last'.status = 200
                    /\ Len(audit_log') = Len(audit_log) + 1
                    /\ SubSeq(audit_log', 1, Len(audit_log)) = audit_log
                    /\ NewEntry.action = "EXPORT"
                    /\ NewEntry.username = token.payload["username"]
                    /\ IsExportDetails(NewEntry.details, Get(fetched))
               ELSE /\ last'.status # 200
                    /\ audit_log' = audit_log
       /\ \A username \in Usernames, password \in Passwords :
            Login(username, password) =>
               IF last'.status = 200
               THEN /\ Len(audit_log') = Len(audit_log) + 1
                    /\ SubSeq(audit_log', 1, Len(audit_log)) = audit_log
                    /\ NewEntry.action = "LOGIN"
                    /\ NewEntry.username = username
                    /\ \E i \in 1..Len(users) :
                          /\ users[i].username = username
                          /\ users[i].is_active
                          /\ verify_password(password, users[i].hashed_password)
               ELSE audit_log' = audit_log
       /\ audit_log' # audit_log =>
            /\ Len(audit_log') = Len(audit_log) + 1
            /\ last'.status = 200
            /\ \/ NewEntry.action = "LOGIN" /\ last'.op = "login"
               \/ NewEntry.action = "EXPORT" /\ last'.op = "export"]_vars

C28_Witness ==
    /\ last = [op |-> "export", status |-> 200]
    /\ Len(audit_log) = 2
    /\ audit_log[1].action = "LOGIN"
    /\ audit_log[2].action = "EXPORT"
    /\ audit_log[2].username = "admin"
    /\ audit_log[2].details = Txt_DetailedExcelExport \o <<"2">> \o Txt_Records

---------------------------------------------------------------------------
(* Properties of the user service (specification SpecAuth).                *)

\* C29: authenticate_user returns the user (the login is answered with
\* 200) and stamps last_login exactly when the username exists, the
\* account is active and the password verifies; otherwise it returns None
\* (the login is answered with 401) and the users table is left as it was.
C29_AuthenticateFrame ==
    [][\A username \in Usernames, password \in Passwords :
          Login(username, password) =>
             LET rows == {i \in 1..Len(users) : users[i].username = username}
                 ok == \E i \in rows :
                          /\ users[i].is_active
                          /\ users[i].hashed_password = <<"bcrypt", password>>
             IN  IF ok
                 THEN /\ last'.status = 200
                      /\ users' = [i \in 1..Len(users) |->
                                     IF i \in rows
                                     THEN [users[i] EXCEPT !.last_login = now]
                                     ELSE users[i]]
                 ELSE /\ last'.status = 401
                      /\ users' = users]_vars

C29_Witness ==
    /\ last = [op |-> "login", status |-> 200]
    /\ \E i \in 1..Len(users) :
          /\ users[i].username = "admin"
          /\ users[i].is_active
          /\ users[i].last_login = now

AdminCount == Cardinality({i \in 1..Len(users) : users[i].role = "admin"})

\* C30: when one or more users have the role admin, create_default_admin
\* returns None without raising and leaves the users table as it was.
C30_StartupKeepsAdmins ==
    [][(Startup /\ AdminCount >= 1) =>
          /\ last'.status = 200
          /\ users' = users]_vars

\* what start-up does keep: it adds a user only when no user has the
\* role admin, leaves the table alone when exactly one has, and never
\* adds a second user named admin
StartupCreatesOnlyWithoutAdmin ==
    [][Startup =>
          /\ users' # users => (AdminCount = 0 /\ last'.status = 201)
          /\ AdminCount = 1 => (last'.status = 200 /\ users' = users)
          /\ Cardinality({i \in 1..Len(users') : users'[i].username = "admin"}) <= 1]_vars

=============================================================================
